---- MODULE Spec2Model ----
(***************************************************************************)
(* State machine of the Phyn integration: the fleet coordinator            *)
(* (update_coordinator.py), the per-device objects (devices/base.py,       *)
(* devices/pp.py, devices/pc.py, devices/pw.py) and the valve entity.      *)
(*                                                                         *)
(* Python dicts are functions over a set of string keys; a missing key is  *)
(* a key outside DOMAIN, and reading it raises KeyError.  Measurements are *)
(* fixed-point integers in units of 1/10000.                               *)
(***************************************************************************)
EXTENDS Integers, Sequences, FiniteSets, TLC

VARIABLES
    devices,                 \* coordinator._devices: the list of agents
    enumerated,              \* the add_device calls of async_setup_entry, in order
    acked_since_request,     \* agent -> a preference write was acknowledged after the
                             \* get_device_preferences call of its refresh was issued
    device_state,            \* agent -> _device_state
    rt_device_state,         \* agent -> _rt_device_state (latest push payload)
    device_preferences,      \* agent -> _device_preferences (name -> item)
    firmware_info,           \* agent -> _firmware_info
    water_usage,             \* agent -> _water_usage
    water_statistics,        \* agent -> _water_statistics
    update_count,            \* agent -> _update_count
    last_known_valve_state,  \* agent -> _last_known_valve_state
    tick,                    \* position of _async_update_data: state, agent, awaited call
    visited,                 \* agents whose async_update_data was invoked in this sweep
    tick_result,             \* outcome of the last finished _async_update_data
    refresh_result,          \* agent -> outcome of its last async_update_data
    calls,                   \* agent -> PollClient calls issued by its current refresh
    last_poll,               \* agent -> the last poll mapping merged into _device_state
                             \* or _water_statistics
    phase,                   \* position of async_setup_entry
    handlers,                \* agents whose on_device_update is registered with mqtt
    pref_write,              \* agent -> set_device_preference call in flight
    pref_result,             \* agent -> outcome of its last set_device_preference
    valve_report,            \* agent -> last state written by the valve entity, the raw
                             \* status it was computed from, the raw status of the
                             \* last write before it that did not see Partial, and
                             \* the last Open or Closed written before it
    polled_preferences,      \* agent -> last get_device_preferences response applied
    commands,                \* write commands received by the PollClient, in order
    pref_call,               \* agent -> its last call of a preference setter
    valve_command,           \* agent -> its last async_open_valve / async_close_valve
    last_push                \* the last message dispatched by mqtt: its device id, and
                             \* per agent the last payload addressed to it, the
                             \* outcome of on_device_update and the number of
                             \* entities it wrote

vars == <<devices, enumerated, acked_since_request, device_state, rt_device_state, device_preferences,
          firmware_info, water_usage, water_statistics, update_count,
          last_known_valve_state, tick, visited, tick_result, refresh_result,
          calls, last_poll, phase, handlers, pref_write, pref_result,
          valve_report, polled_preferences, commands, pref_call, valve_command,
          last_push>>

-----------------------------------------------------------------------------
(* Bounds of the model *)

MaxUpdateCount == 2
MaxThrottleCount == 61
MaxCommands == 1
MaxRefreshCount == 1
MaxDevices == 3

(* Program constants *)

FirmwarePeriod == 60
EntityCount == 12

-----------------------------------------------------------------------------
(* Python dict and exception values *)

EmptyDict == [k \in {} |-> 0]

Has(d, k) == k \in DOMAIN d

DictUpdate(d, u) ==
    [k \in (DOMAIN d) \cup (DOMAIN u) |-> IF k \in DOMAIN u THEN u[k] ELSE d[k]]

NoCause == [exc |-> "none", call |-> "none"]
NoResult == [kind |-> "none", cause |-> NoCause]
Pending == [kind |-> "pending", cause |-> NoCause]
Ok == [kind |-> "ok", cause |-> NoCause]
RequestError(call) == [exc |-> "RequestError", call |-> call]
UpdateFailed(error) == [kind |-> "UpdateFailed", cause |-> error]
TimeoutError == [kind |-> "TimeoutError", cause |-> NoCause]
TypeError == [kind |-> "TypeError", cause |-> NoCause]

Agents == 1..Len(devices)

-----------------------------------------------------------------------------
(* The fleet: PhynDataUpdateCoordinator.add_device and the constructors *)

NewDevice(cls, home_id, device_id, product_code) ==
    [cls |-> cls, home_id |-> home_id, id |-> device_id, product_code |-> product_code]

(* add_device with an else branch that builds a Phyn Plus *)
add_device_AnyCode(devs, home_id, device_id, product_code) ==
    IF product_code \in {"PC1"}
    THEN Append(devs, NewDevice("PhynClassicDevice", home_id, device_id, product_code))
    ELSE IF product_code \in {"PW1"}
    THEN Append(devs, NewDevice("PhynWaterSensorDevice", home_id, device_id, product_code))
    ELSE Append(devs, NewDevice("PhynPlusDevice", home_id, device_id, product_code))

add_device(devs, home_id, device_id, product_code) ==
    IF product_code \in {"PP1", "PP2"}
    THEN Append(devs, NewDevice("PhynPlusDevice", home_id, device_id, product_code))
    ELSE IF product_code \in {"PC1"}
    THEN Append(devs, NewDevice("PhynClassicDevice", home_id, device_id, product_code))
    ELSE IF product_code \in {"PW1"}
    THEN Append(devs, NewDevice("PhynWaterSensorDevice", home_id, device_id, product_code))
    ELSE devs

RECURSIVE AddDevices(_, _)
AddDevices(devs, home) ==
    IF home = <<>> THEN devs
    ELSE AddDevices(add_device(devs, 1, Head(home).device_id, Head(home).product_code),
                    Tail(home))

InitialDeviceState(cls) ==
    IF cls = "PhynPlusDevice" THEN [flow_state |-> [v |-> 0, ts |-> 0]]
    ELSE IF cls = "PhynClassicDevice" THEN [cold_line_num |-> "None", hot_line_num |-> "None"]
    ELSE EmptyDict

IsPlus(a) == devices[a].cls = "PhynPlusDevice"
IsClassic(a) == devices[a].cls = "PhynClassicDevice"
IsWaterSensor(a) == devices[a].cls = "PhynWaterSensorDevice"

-----------------------------------------------------------------------------
(* Order of the PollClient calls of one async_update_data *)

(* the firmware fetch without its throttle *)
FirmwareOrDone_Always(a) == "get_latest_firmware_info"

FirmwareOrDone(a) ==
    IF update_count[a] % FirmwarePeriod = 0 THEN "get_latest_firmware_info" ELSE "done"

FirstCall(a) ==
    IF IsWaterSensor(a) /\ Has(device_state[a], "product_code")
    THEN "get_water_statistics"
    ELSE "get_state"

AfterCall(a, call) ==
    IF call = "get_latest_firmware_info" THEN "done"
    ELSE IF IsPlus(a) THEN
        IF call = "get_state" THEN "get_device_preferences"
        ELSE IF call = "get_device_preferences" THEN "get_consumption"
        ELSE FirmwareOrDone(a)
    ELSE IF IsClassic(a) THEN
        IF call = "get_state" THEN "get_consumption"
        ELSE FirmwareOrDone(a)
    ELSE
        IF call = "get_state" THEN "get_water_statistics"
        ELSE FirmwareOrDone(a)

Idle == [state |-> "Idle", i |-> 0, call |-> "none"]
Awaiting(a, call) == [state |-> "Ticking", i |-> a, call |-> call]

PhaseAfterTick == IF phase = "first_refresh" THEN "setup" ELSE phase

(* _async_update_data returns or raises: the sweep is over *)
EndTick(result) ==
    /\ tick' = Idle
    /\ tick_result' = result
    /\ phase' = PhaseAfterTick

(* the for loop of _async_update_data enters device.async_update_data of agent a,
   which runs up to its first await *)
BeginRefresh(a, results, log, seen) ==
    /\ tick' = Awaiting(a, FirstCall(a))
    /\ visited' = seen \cup {a}
    /\ refresh_result' = [results EXCEPT ![a] = Pending]
    /\ calls' = [log EXCEPT ![a] = <<FirstCall(a)>>]
    /\ UNCHANGED <<tick_result, phase>>

(* agent a resumes after a successful call and runs up to its next await, or
   to the end of async_update_data and on into the next iteration of the loop *)
Continue(a, next) ==
    IF next # "done"
    THEN /\ tick' = Awaiting(a, next)
         /\ calls' = [calls EXCEPT ![a] = Append(@, next)]
         /\ UNCHANGED <<update_count, refresh_result, visited, tick_result, phase>>
    ELSE /\ update_count' = [update_count EXCEPT ![a] = @ + 1]
         /\ IF a < Len(devices)
            THEN BeginRefresh(a + 1, [refresh_result EXCEPT ![a] = Ok], calls, visited)
            ELSE /\ refresh_result' = [refresh_result EXCEPT ![a] = Ok]
                 /\ EndTick(Ok)
                 /\ UNCHANGED <<visited, calls>>

(* the increment of _update_count in a finally clause *)
Abort_Counting(a, exc) ==
    /\ refresh_result' = [refresh_result EXCEPT ![a] = exc]
    /\ EndTick(exc)
    /\ update_count' = [update_count EXCEPT ![a] = @ + 1]
    /\ UNCHANGED <<visited, calls>>

(* an exception leaves async_update_data of agent a; _async_update_data only
   catches RequestError, so the exception leaves the sweep as well *)
Abort(a, exc) ==
    /\ refresh_result' = [refresh_result EXCEPT ![a] = exc]
    /\ EndTick(exc)
    /\ UNCHANGED <<update_count, visited, calls>>

Fleet == <<devices, enumerated>>

Stores == <<device_state, rt_device_state, device_preferences, firmware_info,
            water_usage, water_statistics, last_known_valve_state, last_poll,
            polled_preferences>>

Writes == <<commands, pref_call, valve_command>>

Others == <<Fleet, acked_since_request, handlers, pref_write, pref_result, valve_report, Writes, last_push>>

-----------------------------------------------------------------------------
(* Resolved properties of a device.  A read returns a value, None, or raises *)

Val(v) == [kind |-> "value", v |-> v]
None == [kind |-> "None"]
Raise(e) == [kind |-> "raise", exc |-> e]

Pow10(n) == IF n = 0 THEN 1 ELSE IF n = 1 THEN 10 ELSE IF n = 2 THEN 100
            ELSE IF n = 3 THEN 1000 ELSE 10000

(* Python round(x, ndigits) on a value in units of 1/10000: to the nearest
   multiple of 10^-ndigits, ties to the even multiple *)
Round(x, ndigits) ==
    LET unit == Pow10(4 - ndigits)
        q == x \div unit
        r == x % unit
    IN  IF 2 * r < unit THEN q * unit
        ELSE IF 2 * r > unit THEN (q + 1) * unit
        ELSE IF q % 2 = 0 THEN q * unit ELSE (q + 1) * unit

(* int(s) of a string of decimal digits, the string being a sequence of digits *)
RECURSIVE ParseInt(_)
ParseInt(s) == IF s = <<>> THEN 0 ELSE 10 * ParseInt(SubSeq(s, 1, Len(s) - 1)) + s[Len(s)]

available(a) ==
    IF ~Has(device_state[a], "online_status") THEN Raise("KeyError")
    ELSE Val(device_state[a]["online_status"]["v"] = "online")

(* s > t of two strings of digits, as Python compares str *)
StrGreater(s, t) ==
    \/ \E i \in 1..Len(t) :
           /\ i <= Len(s)
           /\ \A j \in 1..(i - 1) : s[j] = t[j]
           /\ s[i] > t[i]
    \/ /\ Len(s) > Len(t)
       /\ \A j \in 1..Len(t) : s[j] = t[j]

(* firmware_has_update comparing the version strings without int() *)
firmware_has_update_Lexical(a) ==
    IF ~Has(firmware_info[a], "fw_version") THEN None
    ELSE IF ~Has(device_state[a], "fw_version") THEN Raise("KeyError")
    ELSE Val(StrGreater(firmware_info[a]["fw_version"], device_state[a]["fw_version"]))

firmware_has_update(a) ==
    IF ~Has(firmware_info[a], "fw_version") THEN None
    ELSE IF ~Has(device_state[a], "fw_version") THEN Raise("KeyError")
    ELSE Val(ParseInt(firmware_info[a]["fw_version"]) > ParseInt(device_state[a]["fw_version"]))

firmware_version(a) ==
    IF ~Has(device_state[a], "fw_version") THEN Raise("KeyError")
    ELSE Val(device_state[a]["fw_version"])

consumption(a) ==
    IF ~Has(rt_device_state[a], "consumption") THEN None
    ELSE Val(rt_device_state[a]["consumption"]["v"])

consumption_today(a) ==
    IF ~Has(water_usage[a], "water_consumption") THEN Raise("KeyError")
    ELSE Val(water_usage[a]["water_consumption"])

current_flow_rate(a) ==
    IF ~Has(device_state[a], "flow") THEN Raise("KeyError")
    ELSE IF ~Has(device_state[a]["flow"], "v") THEN None
    ELSE Val(Round(device_state[a]["flow"]["v"], 3))

(* the shared body of current_psi and temperature *)
Measurement(a, key) ==
    IF ~Has(device_state[a], key) THEN Raise("KeyError")
    ELSE IF Has(device_state[a][key], "v") THEN Val(Round(device_state[a][key]["v"], 2))
    ELSE IF Has(device_state[a][key], "mean") THEN Val(Round(device_state[a][key]["mean"], 2))
    ELSE Raise("KeyError")

current_psi(a) == Measurement(a, "pressure")

temperature(a) == Measurement(a, "temperature")

(* _device_state["sov_status"]["v"], the raw valve status, of a state dict *)
RawStatus(ds) ==
    IF ~Has(ds, "sov_status") THEN Raise("KeyError")
    ELSE Val(ds["sov_status"]["v"])

sov_status(a) == RawStatus(device_state[a])

leak_test_running(a) ==
    IF sov_status(a).kind = "raise" THEN sov_status(a)
    ELSE Val(sov_status(a).v = "LeakExp")

ValveChanging(ds) ==
    IF RawStatus(ds).kind = "raise" THEN RawStatus(ds)
    ELSE Val(RawStatus(ds).v = "Partial")

valve_changing(a) == ValveChanging(device_state[a])

(* valve_open: the value returned, and _last_known_valve_state after the read *)
ValveOpen(ds, last) ==
    IF ValveChanging(ds).kind = "raise" THEN ValveChanging(ds)
    ELSE IF ValveChanging(ds).v THEN Val(last)
    ELSE Val(RawStatus(ds).v = "Open")

(* valve_open without the early return on valve_changing *)
LastKnownAfterRead_Unheld(ds, last) ==
    IF ValveChanging(ds).kind = "raise" THEN last
    ELSE RawStatus(ds).v = "Open"

LastKnownAfterRead(ds, last) ==
    IF ValveChanging(ds).kind = "raise" THEN last
    ELSE IF ValveChanging(ds).v THEN last
    ELSE RawStatus(ds).v = "Open"

valve_open(a) == ValveOpen(device_state[a], last_known_valve_state[a])

Preference(a, name) ==
    IF ~Has(device_preferences[a], name) THEN None
    ELSE Val(device_preferences[a][name]["value"] = "true")

scheduled_leak_test_enabled(a) == Preference(a, "scheduler_enable")

away_mode(a) == Preference(a, "leak_sensitivity_away_mode")

Attributes ==
    {"current_flow_rate", "current_psi", "temperature", "valve_open", "valve_changing",
     "leak_test_running", "consumption", "consumption_today", "away_mode",
     "firmware_has_update", "available"}

Read(a, attr) ==
    CASE attr = "current_flow_rate" -> current_flow_rate(a)
      [] attr = "current_psi" -> current_psi(a)
      [] attr = "temperature" -> temperature(a)
      [] attr = "valve_open" -> valve_open(a)
      [] attr = "valve_changing" -> valve_changing(a)
      [] attr = "leak_test_running" -> leak_test_running(a)
      [] attr = "consumption" -> consumption(a)
      [] attr = "consumption_today" -> consumption_today(a)
      [] attr = "away_mode" -> away_mode(a)
      [] attr = "firmware_has_update" -> firmware_has_update(a)
      [] attr = "available" -> available(a)

-----------------------------------------------------------------------------
(* PhynValve: what the valve entity reports when its state is written *)

IsOpening(ds, last) ==
    ValveChanging(ds).kind = "value" /\ ValveChanging(ds).v /\ last = FALSE

(* is_closing without the test of _last_known_valve_state *)
IsClosing_AnyDirection(ds, last) ==
    ValveChanging(ds).kind = "value" /\ ValveChanging(ds).v

IsClosing(ds, last) ==
    ValveChanging(ds).kind = "value" /\ ValveChanging(ds).v /\ last = TRUE

is_opening(a) == IsOpening(device_state[a], last_known_valve_state[a])

is_closing(a) == IsClosing(device_state[a], last_known_valve_state[a])

(* PhynValve._attr_is_closed: valve_open is a bool or raises, never None *)
IsClosed(ds, last) ==
    IF ValveOpen(ds, last).kind = "raise" THEN ValveOpen(ds, last)
    ELSE Val(~ValveOpen(ds, last).v)

is_closed(a) == IsClosed(device_state[a], last_known_valve_state[a])

(* the state the valve entity writes: is_opening, is_closing, then is_closed *)
ValveState(ds, last) ==
    IF ValveChanging(ds).kind = "raise" THEN "KeyError"
    ELSE IF IsOpening(ds, last) THEN "Opening"
    ELSE IF IsClosing(ds, last) THEN "Closing"
    ELSE IF ValveOpen(ds, last).v THEN "Open" ELSE "Closed"

NoReport == [state |-> "none", raw |-> "none", prev |-> "none", stable |-> "none"]

(* the record of one write of the valve entity *)
Report(old, ds, last) ==
    [state |-> ValveState(ds, last),
     raw |-> RawStatus(ds).v,
     prev |-> IF old.raw \in {"none", "Partial"} THEN old.prev ELSE old.raw,
     stable |-> IF old.raw \in {"Open", "Closed"} THEN old.raw ELSE old.stable]

(* on_device_update writes the entities in list order and PhynValve is the
   last one: a read that raises in an earlier entity ends the loop before it *)
EntityBeforeValveRaises(ds, wu) ==
    \/ ~Has(ds, "online_status")
    \/ ~Has(wu, "water_consumption")
    \/ ~Has(ds, "flow")
    \/ ~Has(ds, "fw_version")
    \/ ~Has(ds, "sov_status")
    \/ ~Has(ds, "temperature")
    \/ ~Has(ds, "pressure")

(* the position in self.entities of the first entity whose state write raises
   KeyError, EntityCount + 1 when none does: every write reads available, then
   the entity reads its own property *)
FirstRaising(ds, wu, fi) ==
    IF ~Has(ds, "online_status") THEN 1
    ELSE IF ~Has(wu, "water_consumption") THEN 3
    ELSE IF ~Has(ds, "flow") THEN 4
    ELSE IF Has(fi, "fw_version") /\ ~Has(ds, "fw_version") THEN 6
    ELSE IF ~Has(ds, "fw_version") THEN 7
    ELSE IF ~Has(ds, "sov_status") THEN 8
    ELSE IF ~Has(ds, "temperature") THEN 10
    ELSE IF ~Has(ds, "pressure") THEN 11
    ELSE EntityCount + 1

-----------------------------------------------------------------------------
(* Initial state: async_setup_entry has enumerated the devices of the home and
   is about to run the first sweep *)

NoWrite == [name |-> "none", value |-> "none"]

NoCall == [via |-> "none", name |-> "none", value |-> "none"]

NoCommand == [command |-> "none", outcome |-> "none"]

NoPush(agents) ==
    [id |-> 0, data |-> [a \in agents |-> EmptyDict],
     result |-> [a \in agents |-> "none"], written |-> [a \in agents |-> 0]]

InitFleet(home) ==
    /\ devices = AddDevices(<<>>, home)
    /\ enumerated = home
    /\ acked_since_request = [a \in 1..Len(devices) |-> FALSE]
    /\ device_state = [a \in 1..Len(devices) |-> InitialDeviceState(devices[a].cls)]
    /\ rt_device_state = [a \in 1..Len(devices) |-> EmptyDict]
    /\ device_preferences = [a \in 1..Len(devices) |-> EmptyDict]
    /\ firmware_info = [a \in 1..Len(devices) |-> EmptyDict]
    /\ water_usage = [a \in 1..Len(devices) |-> EmptyDict]
    /\ water_statistics = [a \in 1..Len(devices) |-> EmptyDict]
    /\ update_count = [a \in 1..Len(devices) |-> 0]
    /\ last_known_valve_state = [a \in 1..Len(devices) |-> TRUE]
    /\ tick = Idle
    /\ visited = {}
    /\ tick_result = NoResult
    /\ refresh_result = [a \in 1..Len(devices) |-> NoResult]
    /\ calls = [a \in 1..Len(devices) |-> <<>>]
    /\ last_poll = [a \in 1..Len(devices) |-> EmptyDict]
    /\ phase = "first_refresh"
    /\ handlers = {}
    /\ pref_write = [a \in 1..Len(devices) |-> NoWrite]
    /\ pref_result = [a \in 1..Len(devices) |-> "none"]
    /\ valve_report = [a \in 1..Len(devices) |-> NoReport]
    /\ polled_preferences = [a \in 1..Len(devices) |-> <<>>]
    /\ commands = <<>>
    /\ pref_call = [a \in 1..Len(devices) |-> NoCall]
    /\ valve_command = [a \in 1..Len(devices) |-> NoCommand]
    /\ last_push = NoPush(1..Len(devices))

-----------------------------------------------------------------------------
(* PhynDataUpdateCoordinator._async_update_data and <device>.async_update_data *)

(* the coordinator starts a sweep; cap bounds _update_count in the model *)
TickStart(cap) ==
    /\ tick.state = "Idle"
    /\ phase \in {"first_refresh", "running"}
    /\ \A a \in Agents : update_count[a] < cap
    /\ IF devices = <<>>
       THEN /\ EndTick(Ok)
            /\ UNCHANGED <<visited, refresh_result, calls>>
       ELSE BeginRefresh(1, [a \in Agents |-> NoResult], [a \in Agents |-> <<>>], {})
    /\ UNCHANGED <<update_count, Stores, Others>>

(* self._device_state = <the answer> in place of dict.update *)
GetStateReturns_Replacing(resp) ==
    /\ tick.state = "Ticking"
    /\ tick.call = "get_state"
    /\ device_state' = [device_state EXCEPT ![tick.i] = resp]
    /\ last_poll' = [last_poll EXCEPT ![tick.i] = resp]
    /\ Continue(tick.i, AfterCall(tick.i, "get_state"))
    /\ acked_since_request' = [acked_since_request EXCEPT ![tick.i] = FALSE]
    /\ UNCHANGED <<rt_device_state, device_preferences, firmware_info, water_usage,
                   water_statistics, last_known_valve_state, polled_preferences,
                   Fleet, handlers, pref_write, pref_result, valve_report, Writes,
                   last_push>>

(* _update_device_state: get_state answers; dict.update of _device_state *)
GetStateReturns(resp) ==
    /\ tick.state = "Ticking"
    /\ tick.call = "get_state"
    /\ device_state' = [device_state EXCEPT ![tick.i] = DictUpdate(@, resp)]
    /\ last_poll' = [last_poll EXCEPT ![tick.i] = resp]
    /\ Continue(tick.i, AfterCall(tick.i, "get_state"))
    /\ acked_since_request' = [acked_since_request EXCEPT ![tick.i] = FALSE]
    /\ UNCHANGED <<rt_device_state, device_preferences, firmware_info, water_usage,
                   water_statistics, last_known_valve_state, polled_preferences,
                   Fleet, handlers, pref_write, pref_result, valve_report, Writes,
                   last_push>>

(* setdefault in place of update: a cached entry is kept *)
StoreItem_KeepCached(prefs, item) == DictUpdate([k \in {item["name"]} |-> item], prefs)

(* self._device_preferences.update({item['name']: item}) *)
StoreItem(prefs, item) == DictUpdate(prefs, [k \in {item["name"]} |-> item])

RECURSIVE UpdatePreferences(_, _)
UpdatePreferences(prefs, data) ==
    IF data = <<>> THEN prefs
    ELSE UpdatePreferences(StoreItem(prefs, Head(data)), Tail(data))

(* _update_device_preferences: get_device_preferences answers *)
GetDevicePreferencesReturns(data) ==
    /\ tick.state = "Ticking"
    /\ tick.call = "get_device_preferences"
    /\ device_preferences' =
           [device_preferences EXCEPT ![tick.i] = UpdatePreferences(@, data)]
    /\ polled_preferences' = [polled_preferences EXCEPT ![tick.i] = data]
    /\ Continue(tick.i, AfterCall(tick.i, "get_device_preferences"))
    /\ UNCHANGED <<device_state, rt_device_state, firmware_info, water_usage,
                   water_statistics, last_known_valve_state, last_poll,
                   Others>>

(* _update_consumption_data: get_consumption answers; _water_usage is replaced *)
GetConsumptionReturns(resp) ==
    /\ tick.state = "Ticking"
    /\ tick.call = "get_consumption"
    /\ water_usage' = [water_usage EXCEPT ![tick.i] = resp]
    /\ Continue(tick.i, AfterCall(tick.i, "get_consumption"))
    /\ UNCHANGED <<device_state, rt_device_state, device_preferences, firmware_info,
                   water_statistics, last_known_valve_state, last_poll,
                   polled_preferences, Others>>

(* _update_firmware_information: get_latest_firmware_info answers a list *)
GetLatestFirmwareInfoReturns(resp) ==
    /\ tick.state = "Ticking"
    /\ tick.call = "get_latest_firmware_info"
    /\ firmware_info' = [firmware_info EXCEPT ![tick.i] = DictUpdate(@, resp[1])]
    /\ Continue(tick.i, AfterCall(tick.i, "get_latest_firmware_info"))
    /\ UNCHANGED <<device_state, rt_device_state, device_preferences, water_usage,
                   water_statistics, last_known_valve_state, last_poll,
                   polled_preferences, Others>>

(* the loop of PhynWaterSensorDevice._update_device: the entry with the greatest
   ts, the first one on ties; None for an empty list *)
RECURSIVE LatestEntry(_, _)
LatestEntry(item, data) ==
    IF data = <<>> THEN item
    ELSE IF item = None THEN LatestEntry(Head(data), Tail(data))
    ELSE IF Head(data)["ts"] > item["ts"] THEN LatestEntry(Head(data), Tail(data))
    ELSE LatestEntry(item, Tail(data))

(* PhynWaterSensorDevice._update_device: get_water_statistics answers;
   dict.update(None) raises TypeError, which is not a RequestError *)
GetWaterStatisticsReturns(data) ==
    /\ tick.state = "Ticking"
    /\ tick.call = "get_water_statistics"
    /\ IF LatestEntry(None, data) = None
       THEN /\ Abort(tick.i, TypeError)
            /\ UNCHANGED <<water_statistics, last_poll>>
       ELSE /\ water_statistics' =
                   [water_statistics EXCEPT ![tick.i] = DictUpdate(@, LatestEntry(None, data))]
            /\ last_poll' = [last_poll EXCEPT ![tick.i] = LatestEntry(None, data)]
            /\ Continue(tick.i, AfterCall(tick.i, "get_water_statistics"))
    /\ UNCHANGED <<device_state, rt_device_state, device_preferences, firmware_info,
                   water_usage, last_known_valve_state, polled_preferences, Others>>

(* raise UpdateFailed() without the error *)
CallFails_Causeless ==
    /\ tick.state = "Ticking"
    /\ Abort(tick.i, UpdateFailed(NoCause))
    /\ UNCHANGED <<Stores, Others>>

(* the awaited PollClient call raises RequestError: async_update_data raises
   UpdateFailed(error) from it *)
CallFails ==
    /\ tick.state = "Ticking"
    /\ Abort(tick.i, UpdateFailed(RequestError(tick.call)))
    /\ UNCHANGED <<Stores, Others>>

(* timeout(20) expires while a call is awaited: asyncio.TimeoutError is raised
   out of the async with block, past except (RequestError) *)
RefreshTimesOut ==
    /\ tick.state = "Ticking"
    /\ Abort(tick.i, TimeoutError)
    /\ UNCHANGED <<Stores, Others>>

-----------------------------------------------------------------------------
(* PhynDataUpdateCoordinator.async_setup, after the first sweep has ended *)

(* the agents whose async_setup raises: PhynClassicDevice defines none
   (AttributeError); PhynPlusDevice returns _device_state["sov_status"]["v"] *)
SetupRaises(a) ==
    \/ IsClassic(a)
    \/ IsPlus(a) /\ ~Has(device_state[a], "sov_status")

SetupReached ==
    {a \in Agents : \A b \in Agents : (b < a) => ~SetupRaises(b)}

AsyncSetup ==
    /\ phase = "setup"
    /\ handlers' = {a \in SetupReached : IsPlus(a)}
    /\ phase' = IF \E a \in Agents : SetupRaises(a) THEN "setup_failed" ELSE "running"
    /\ UNCHANGED <<Fleet, acked_since_request,
                   Stores, update_count, tick, visited, tick_result,
                   refresh_result, calls, pref_write, pref_result, valve_report,
                   Writes, last_push>>

-----------------------------------------------------------------------------
(* PhynPlusDevice.on_device_update: a push message reaches every registered handler *)

(* on_device_update whose _device_state.update stops before the sensor data *)
UpdateData_Torn(data) ==
    LET flow == IF Has(data, "flow")
                THEN [k \in {"flow"} |-> data["flow"]] ELSE EmptyDict
        sov == IF Has(data, "sov_state")
               THEN [k \in {"sov_status"} |-> [v |-> data["sov_state"]]] ELSE EmptyDict
    IN  DictUpdate(flow, sov)

UpdateData(data) ==
    LET sensor == IF Has(data, "sensor_data") THEN data["sensor_data"] ELSE EmptyDict
        flow == IF Has(data, "flow")
                THEN [k \in {"flow"} |-> data["flow"]] ELSE EmptyDict
        flow_state == IF Has(data, "flow_state")
                      THEN [k \in {"flow_state"} |-> data["flow_state"]] ELSE EmptyDict
        sov == IF Has(data, "sov_state")
               THEN [k \in {"sov_status"} |-> [v |-> data["sov_state"]]] ELSE EmptyDict
        pressure == IF Has(sensor, "pressure")
                    THEN [k \in {"pressure"} |-> sensor["pressure"]] ELSE EmptyDict
        temp == IF Has(sensor, "temperature")
                THEN [k \in {"temperature"} |-> sensor["temperature"]] ELSE EmptyDict
    IN  DictUpdate(DictUpdate(DictUpdate(DictUpdate(flow, flow_state), sov), pressure), temp)

(* on_device_update without the test of the device id *)
Matched_Any(device_id) == handlers

Matched(device_id) == {a \in handlers : devices[a].id = device_id}

(* _rt_device_state.update(data) in place of the assignment *)
PushSnapshot_Merged(old, data) == DictUpdate(old, data)

(* self._rt_device_state = data *)
PushSnapshot(old, data) == data

(* the agents whose valve entity is reached by the loop over self.entities *)
ValveWritten(device_id, data) ==
    {a \in Matched(device_id) :
        /\ phase = "running"
        /\ ~EntityBeforeValveRaises(DictUpdate(device_state[a], UpdateData(data)),
                                    water_usage[a])}

(* the loop over self.entities: how it ends, and how many entities it wrote.
   Until the platforms are set up the entities have no hass and the first
   async_write_ha_state raises RuntimeError *)
WriteOutcome(ds, wu, fi) ==
    IF phase # "running" THEN "RuntimeError"
    ELSE IF FirstRaising(ds, wu, fi) <= EntityCount THEN "KeyError"
    ELSE "ok"

EntitiesWritten(ds, wu, fi) ==
    IF phase # "running" THEN 0 ELSE FirstRaising(ds, wu, fi) - 1

(* a push that waits until no refresh is suspended *)
Delivered_AfterRefresh == handlers # {} /\ tick.state = "Idle"

(* mqtt dispatches a message to the handlers registered with it; nothing makes
   on_device_update wait *)
Delivered == handlers # {}

OnDeviceUpdate(device_id, data) ==
    /\ Delivered
    /\ rt_device_state' = [a \in Agents |->
           IF a \in Matched(device_id)
           THEN PushSnapshot(rt_device_state[a], data) ELSE rt_device_state[a]]
    /\ device_state' = [a \in Agents |->
           IF a \in Matched(device_id)
           THEN DictUpdate(device_state[a], UpdateData(data)) ELSE device_state[a]]
    /\ valve_report' = [a \in Agents |->
           IF a \in ValveWritten(device_id, data)
           THEN Report(valve_report[a], DictUpdate(device_state[a], UpdateData(data)),
                       last_known_valve_state[a])
           ELSE valve_report[a]]
    /\ last_known_valve_state' = [a \in Agents |->
           IF a \in ValveWritten(device_id, data)
           THEN LastKnownAfterRead(DictUpdate(device_state[a], UpdateData(data)),
                                   last_known_valve_state[a])
           ELSE last_known_valve_state[a]]
    /\ last_push' =
           [id |-> device_id,
            data |-> [a \in Agents |->
                IF a \in Matched(device_id) THEN data ELSE last_push.data[a]],
            result |-> [a \in Agents |->
                IF a \in Matched(device_id)
                THEN WriteOutcome(device_state'[a], water_usage[a], firmware_info[a])
                ELSE IF a \in handlers THEN "ok" ELSE "none"],
            written |-> [a \in Agents |->
                IF a \in Matched(device_id)
                THEN EntitiesWritten(device_state'[a], water_usage[a], firmware_info[a])
                ELSE 0]]
    /\ UNCHANGED <<Fleet, acked_since_request, device_preferences, firmware_info, water_usage,
                   water_statistics, last_poll, polled_preferences, update_count,
                   tick, visited, tick_result, refresh_result, calls, phase, handlers,
                   pref_write, pref_result, Writes>>

(* the valve entity of agent a writes its state (a coordinator listener, or any
   other state write of the platform): PhynValve reads the valve properties *)
WriteValveState(a) ==
    /\ phase = "running"
    /\ IsPlus(a)
    /\ ValveState(device_state[a], last_known_valve_state[a]) # "KeyError"
    /\ valve_report' = [valve_report EXCEPT
           ![a] = Report(@, device_state[a], last_known_valve_state[a])]
    /\ last_known_valve_state' = [last_known_valve_state EXCEPT
           ![a] = LastKnownAfterRead(device_state[a], @)]
    /\ UNCHANGED <<Fleet, acked_since_request,
                   device_state, rt_device_state, device_preferences,
                   firmware_info, water_usage, water_statistics, last_poll,
                   polled_preferences, update_count, tick, visited, tick_result,
                   refresh_result, calls, phase, handlers, pref_write, pref_result,
                   Writes, last_push>>

-----------------------------------------------------------------------------
(* PhynValve.async_open_valve and async_close_valve *)

(* self._device.api_client: PhynPlusDevice has _coordinator and coordinator but
   no api_client, so the attribute lookup raises before anything is awaited *)
AsyncOpenValve(a) ==
    /\ phase = "running"
    /\ IsPlus(a)
    /\ valve_command' = [valve_command EXCEPT
           ![a] = [command |-> "open_valve", outcome |-> "AttributeError"]]
    /\ UNCHANGED <<Fleet, acked_since_request,
                   Stores, update_count, tick, visited, tick_result,
                   refresh_result, calls, phase, handlers, pref_write, pref_result,
                   valve_report, commands, pref_call, last_push>>

AsyncCloseValve(a) ==
    /\ phase = "running"
    /\ IsPlus(a)
    /\ valve_command' = [valve_command EXCEPT
           ![a] = [command |-> "close_valve", outcome |-> "AttributeError"]]
    /\ UNCHANGED <<Fleet, acked_since_request,
                   Stores, update_count, tick, visited, tick_result,
                   refresh_result, calls, phase, handlers, pref_write, pref_result,
                   valve_report, commands, pref_call, last_push>>

-----------------------------------------------------------------------------
(* PhynPlusDevice.set_device_preference, set_away_mode, set_scheduler_enabled *)

PreferenceNames == {"leak_sensitivity_away_mode", "scheduler_enable"}

PreferenceValues == {"true", "false"}

(* device.set_device_preferences(self._phyn_device_id, params) *)
SetPreferencesCommand(a, name, val) ==
    [call |-> "set_device_preferences", id |-> devices[a].id,
     params |-> <<[device_id |-> devices[a].id, name |-> name, value |-> val]>>]

Call(via, name, val) == [via |-> via, name |-> name, value |-> val]

(* a setter reaches its await: the command is handed to the PollClient *)
Send(a, via, name, val) ==
    /\ Len(commands) < MaxCommands
    /\ commands' = Append(commands, SetPreferencesCommand(a, name, val))
    /\ pref_write' = [pref_write EXCEPT ![a] = [name |-> name, value |-> val]]
    /\ pref_call' = [pref_call EXCEPT ![a] = Call(via, name, val)]
    /\ pref_result' = [pref_result EXCEPT ![a] = "pending"]

(* a setter returns or raises before any await *)
Return(a, via, name, val, result) ==
    /\ pref_call' = [pref_call EXCEPT ![a] = Call(via, name, val)]
    /\ pref_result' = [pref_result EXCEPT ![a] = result]
    /\ UNCHANGED <<pref_write, commands>>

(* the cache written before the remote write is awaited *)
SetDevicePreference_Optimistic(a, name, val) ==
    /\ phase = "running"
    /\ IsPlus(a)
    /\ pref_write[a] = NoWrite
    /\ IF name \notin PreferenceNames \/ val \notin PreferenceValues
       THEN /\ Return(a, "set_device_preference", name, val, "ignored")
            /\ UNCHANGED device_preferences
       ELSE /\ Send(a, "set_device_preference", name, val)
            /\ device_preferences' = [device_preferences EXCEPT
                   ![a] = DictUpdate(@, [k \in {name} |-> [value |-> val]])]
    /\ UNCHANGED <<Fleet, acked_since_request,
                   device_state, rt_device_state, firmware_info, water_usage,
                   water_statistics, last_known_valve_state, last_poll,
                   polled_preferences, update_count, tick, visited, tick_result,
                   refresh_result, calls, phase, handlers, valve_report,
                   valve_command, last_push>>

(* set_device_preference without its two validations *)
SetDevicePreference_Unvalidated(a, name, val) ==
    /\ phase = "running"
    /\ IsPlus(a)
    /\ pref_write[a] = NoWrite
    /\ Send(a, "set_device_preference", name, val)
    /\ UNCHANGED <<Fleet, acked_since_request,
                   Stores, update_count, tick, visited, tick_result,
                   refresh_result, calls, phase, handlers, valve_report,
                   valve_command, last_push>>

(* the call up to its await: validation, then set_device_preferences is sent *)
SetDevicePreference(a, name, val) ==
    /\ phase = "running"
    /\ IsPlus(a)
    /\ pref_write[a] = NoWrite
    /\ IF name \notin PreferenceNames \/ val \notin PreferenceValues
       THEN Return(a, "set_device_preference", name, val, "ignored")
       ELSE Send(a, "set_device_preference", name, val)
    /\ UNCHANGED <<Fleet, acked_since_request,
                   Stores, update_count, tick, visited, tick_result,
                   refresh_result, calls, phase, handlers, valve_report,
                   valve_command, last_push>>

(* val = "true" if state else "false" *)
BoolValue(state) == IF state THEN "true" ELSE "false"

(* set_away_mode up to its await *)
SetAwayMode(a, state) ==
    /\ phase = "running"
    /\ IsPlus(a)
    /\ pref_write[a] = NoWrite
    /\ Send(a, "set_away_mode", "leak_sensitivity_away_mode", BoolValue(state))
    /\ UNCHANGED <<Fleet, acked_since_request,
                   Stores, update_count, tick, visited, tick_result,
                   refresh_result, calls, phase, handlers, valve_report,
                   valve_command, last_push>>

(* set_scheduler_enabled up to its await.  It calls set_device_preferences on
   api_client itself, where every other call of the file goes through
   api_client.device: the lookup raises AttributeError, or, should the client
   offer the call there as well, the command is sent *)
SetSchedulerEnabled(a, state) ==
    /\ phase = "running"
    /\ IsPlus(a)
    /\ pref_write[a] = NoWrite
    /\ \/ Send(a, "set_scheduler_enabled", "scheduler_enable", BoolValue(state))
       \/ Return(a, "set_scheduler_enabled", "scheduler_enable", BoolValue(state),
                 "AttributeError")
    /\ UNCHANGED <<Fleet, acked_since_request,
                   Stores, update_count, tick, visited, tick_result,
                   refresh_result, calls, phase, handlers, valve_report,
                   valve_command, last_push>>

SetItemValue(prefs, name, val) ==
    IF Has(prefs, name)
    THEN DictUpdate(prefs, [k \in {name} |-> DictUpdate(prefs[name], [value |-> val])])
    ELSE DictUpdate(prefs, [k \in {name} |-> [value |-> val]])

(* set_device_preference creates a missing entry before it writes the value;
   set_away_mode and set_scheduler_enabled index the entry directly *)
CreatesEntry(via) == via = "set_device_preference"

(* the remote write is acknowledged: the setter resumes and writes the cache *)
SetPreferencesAcked(a) ==
    /\ pref_write[a] # NoWrite
    /\ IF CreatesEntry(pref_call[a].via) \/ Has(device_preferences[a], pref_write[a].name)
       THEN /\ device_preferences' = [device_preferences EXCEPT
                   ![a] = SetItemValue(@, pref_write[a].name, pref_write[a].value)]
            /\ pref_result' = [pref_result EXCEPT ![a] = "ok"]
       ELSE /\ pref_result' = [pref_result EXCEPT ![a] = "KeyError"]
            /\ UNCHANGED device_preferences
    /\ pref_write' = [pref_write EXCEPT ![a] = NoWrite]
    /\ acked_since_request' = [acked_since_request EXCEPT ![a] = TRUE]
    /\ UNCHANGED <<Fleet, device_state, rt_device_state, firmware_info, water_usage,
                   water_statistics, last_known_valve_state, last_poll,
                   polled_preferences, update_count, tick, visited, tick_result,
                   refresh_result, calls, phase, handlers, valve_report, Writes,
                   last_push>>

(* the remote write raises RequestError, which leaves the setter *)
SetPreferencesFails(a) ==
    /\ pref_write[a] # NoWrite
    /\ pref_result' = [pref_result EXCEPT ![a] = "RequestError"]
    /\ pref_write' = [pref_write EXCEPT ![a] = NoWrite]
    /\ UNCHANGED <<Fleet, acked_since_request,
                   Stores, update_count, tick, visited, tick_result,
                   refresh_result, calls, phase, handlers, valve_report, Writes,
                   last_push>>

-----------------------------------------------------------------------------
(* Answers of the PollClient and payloads of the PushClient *)

SovValues == {"Open", "Closed", "Partial", "LeakExp"}

(* get_state of a Phyn Plus: measurements are means, the valve status is a v *)
PlusState(code, sov, m) ==
    [product_code |-> code, fw_version |-> <<9>>, online_status |-> [v |-> "online"],
     sov_status |-> [v |-> sov], flow |-> [mean |-> m], pressure |-> [mean |-> m],
     temperature |-> [mean |-> m]]

(* get_state of a Phyn Classic or a water sensor *)
BasicState(code) ==
    [product_code |-> code, fw_version |-> <<9>>, online_status |-> [v |-> "online"]]

StateResponses(a, sovs, means) ==
    IF a \notin Agents THEN {}
    ELSE IF IsPlus(a)
    THEN {PlusState(devices[a].product_code, sov, m) : sov \in sovs, m \in means}
    ELSE {BasicState(devices[a].product_code)}

PreferenceItem(name, val) == [name |-> name, value |-> val]

PreferenceResponses(vals) ==
    {<<PreferenceItem("leak_sensitivity_away_mode", x), PreferenceItem("scheduler_enable", y)>> :
        x \in vals, y \in vals}

(* get_device_preferences answers any part of the preference list *)
PreferenceLists(vals) ==
    PreferenceResponses(vals)
        \cup {<<>>}
        \cup {<<PreferenceItem(name, x)>> : name \in PreferenceNames, x \in vals}

ConsumptionResponses == {[water_consumption |-> 123400]}

FirmwareResponses == {<<[fw_version |-> <<1, 0>>, release_notes |-> "url"]>>}

WaterStatisticsResponses ==
    {<<>>,
     <<[ts |-> 1, battery_level |-> 90]>>,
     <<[ts |-> 2, battery_level |-> 80], [ts |-> 2, battery_level |-> 70]>>}

Optional(key, values) == {EmptyDict} \cup {[k \in {key} |-> v] : v \in values}

SensorData(vals) ==
    {DictUpdate(p, t) : p \in Optional("pressure", {[v |-> x] : x \in vals}),
                        t \in Optional("temperature", {[v |-> x] : x \in vals})}

(* push payloads: any subset of the keys flow, sov_state, sensor_data, consumption *)
PushPayloads(sovs, vals, totals) ==
    {DictUpdate(DictUpdate(DictUpdate(f, s), d), c) :
        f \in Optional("flow", {[v |-> x] : x \in vals}),
        s \in Optional("sov_state", sovs),
        d \in Optional("sensor_data", SensorData(vals) \ {EmptyDict}),
        c \in Optional("consumption", {[v |-> x] : x \in totals})}

-----------------------------------------------------------------------------
(* The fleet under its first sweeps: three agents of mixed profiles *)

Homes ==
    {<<[device_id |-> 1, product_code |-> "PP2"], [device_id |-> 2, product_code |-> "PC1"],
       [device_id |-> 3, product_code |-> "PW1"]>>,
     <<[device_id |-> 1, product_code |-> "PW1"], [device_id |-> 2, product_code |-> "PP1"],
       [device_id |-> 4, product_code |-> "XX9"], [device_id |-> 3, product_code |-> "PW1"]>>}

InitSweep == \E home \in Homes : InitFleet(home)

NextSweep ==
    \/ TickStart(MaxUpdateCount)
    \/ \E resp \in StateResponses(tick.i, {"Open"}, {12345}) : GetStateReturns(resp)
    \/ \E data \in PreferenceResponses({"true"}) : GetDevicePreferencesReturns(data)
    \/ \E resp \in ConsumptionResponses : GetConsumptionReturns(resp)
    \/ \E resp \in FirmwareResponses : GetLatestFirmwareInfoReturns(resp)
    \/ \E data \in WaterStatisticsResponses : GetWaterStatisticsReturns(data)
    \/ CallFails
    \/ RefreshTimesOut
    \/ AsyncSetup
    \/ \E id \in {1, 2} : \E data \in PushPayloads({"Partial"}, {}, {}) : OnDeviceUpdate(id, data)

SpecSweep == InitSweep /\ [][NextSweep]_vars

-----------------------------------------------------------------------------
(* One Phyn Plus: the valve under polls, pushes and writes of the valve entity *)

PlusHome == <<[device_id |-> 1, product_code |-> "PP2"]>>

InitValve == InitFleet(PlusHome)

NextValve ==
    \/ TickStart(MaxUpdateCount)
    \/ \E resp \in StateResponses(tick.i, SovValues, {12345}) : GetStateReturns(resp)
    \/ \E data \in PreferenceResponses({"true"}) : GetDevicePreferencesReturns(data)
    \/ \E resp \in ConsumptionResponses : GetConsumptionReturns(resp)
    \/ \E resp \in FirmwareResponses : GetLatestFirmwareInfoReturns(resp)
    \/ CallFails
    \/ AsyncSetup
    \/ \E id \in {1, 2} : \E data \in PushPayloads(SovValues, {}, {}) : OnDeviceUpdate(id, data)
    \/ \E a \in Agents : WriteValveState(a)

SpecValve == InitValve /\ [][NextValve]_vars

-----------------------------------------------------------------------------
(* One Phyn Plus: the measurements under polls and pushes, with timeouts *)

NextResolve ==
    \/ TickStart(MaxUpdateCount)
    \/ \E resp \in StateResponses(tick.i, {"Open"}, {12345}) : GetStateReturns(resp)
    \/ \E data \in PreferenceResponses({"true"}) : GetDevicePreferencesReturns(data)
    \/ \E resp \in ConsumptionResponses : GetConsumptionReturns(resp)
    \/ \E resp \in FirmwareResponses : GetLatestFirmwareInfoReturns(resp)
    \/ CallFails
    \/ RefreshTimesOut
    \/ AsyncSetup
    \/ \E data \in PushPayloads({"Closed"}, {20049}, {}) : OnDeviceUpdate(1, data)

SpecResolve == InitValve /\ [][NextResolve]_vars

-----------------------------------------------------------------------------
(* One Phyn Plus: the preference cache under polls and preference writes *)

NextPreferences ==
    \/ TickStart(MaxUpdateCount)
    \/ \E resp \in StateResponses(tick.i, {"Open"}, {12345}) : GetStateReturns(resp)
    \/ \E data \in PreferenceLists({"true"}) : GetDevicePreferencesReturns(data)
    \/ \E resp \in ConsumptionResponses : GetConsumptionReturns(resp)
    \/ \E resp \in FirmwareResponses : GetLatestFirmwareInfoReturns(resp)
    \/ CallFails
    \/ AsyncSetup
    \/ \E a \in Agents : \E name \in PreferenceNames \cup {"leak_sensitivity"} :
           \E val \in PreferenceValues \cup {"on"} : SetDevicePreference(a, name, val)
    \/ \E a \in Agents : \E state \in BOOLEAN : SetAwayMode(a, state)
    \/ \E a \in Agents : \E state \in BOOLEAN : SetSchedulerEnabled(a, state)
    \/ \E a \in Agents : SetPreferencesAcked(a)
    \/ \E a \in Agents : SetPreferencesFails(a)

SpecPreferences == InitValve /\ [][NextPreferences]_vars

-----------------------------------------------------------------------------
(* A water sensor and a Phyn Plus through a whole firmware period *)

ThrottleHome ==
    <<[device_id |-> 1, product_code |-> "PW1"], [device_id |-> 2, product_code |-> "PP2"]>>

InitThrottle == InitFleet(ThrottleHome)

NextThrottle ==
    \/ TickStart(MaxThrottleCount)
    \/ \E resp \in StateResponses(tick.i, {"Open"}, {12345}) : GetStateReturns(resp)
    \/ \E data \in PreferenceResponses({"true"}) : GetDevicePreferencesReturns(data)
    \/ \E resp \in ConsumptionResponses : GetConsumptionReturns(resp)
    \/ \E resp \in FirmwareResponses : GetLatestFirmwareInfoReturns(resp)
    \/ \E data \in {<<>>, <<[ts |-> 1, battery_level |-> 90]>>} : GetWaterStatisticsReturns(data)
    \/ CallFails
    \/ RefreshTimesOut
    \/ AsyncSetup

SpecThrottle == InitThrottle /\ [][NextThrottle]_vars

-----------------------------------------------------------------------------
(* Two Phyn Plus behind one mqtt connection: pushes for the second one, and
   for a device id of no agent *)

PushHome ==
    <<[device_id |-> 1, product_code |-> "PP2"], [device_id |-> 2, product_code |-> "PP1"]>>

InitPush == InitFleet(PushHome)

NextPush ==
    \/ TickStart(MaxUpdateCount)
    \/ \E resp \in StateResponses(tick.i, {"Open"}, {12345}) : GetStateReturns(resp)
    \/ \E data \in PreferenceResponses({"true"}) : GetDevicePreferencesReturns(data)
    \/ \E resp \in ConsumptionResponses : GetConsumptionReturns(resp)
    \/ \E resp \in FirmwareResponses : GetLatestFirmwareInfoReturns(resp)
    \/ CallFails
    \/ AsyncSetup
    \/ \E id \in {2, 3} : \E data \in PushPayloads({"Closed"}, {}, {5000}) :
           OnDeviceUpdate(id, data)

SpecPush == InitPush /\ [][NextPush]_vars

-----------------------------------------------------------------------------
(* One Phyn Plus: the valve commands among polls, pushes and valve writes *)

NextCommands ==
    \/ TickStart(MaxRefreshCount)
    \/ \E resp \in StateResponses(tick.i, {"Open", "Closed"}, {12345}) : GetStateReturns(resp)
    \/ \E data \in PreferenceResponses({"true"}) : GetDevicePreferencesReturns(data)
    \/ \E resp \in ConsumptionResponses : GetConsumptionReturns(resp)
    \/ \E resp \in FirmwareResponses : GetLatestFirmwareInfoReturns(resp)
    \/ CallFails
    \/ AsyncSetup
    \/ \E data \in PushPayloads({"Partial"}, {}, {}) : OnDeviceUpdate(1, data)
    \/ \E a \in Agents : WriteValveState(a)
    \/ \E a \in Agents : AsyncOpenValve(a)
    \/ \E a \in Agents : AsyncCloseValve(a)

SpecCommands == InitValve /\ [][NextCommands]_vars

-----------------------------------------------------------------------------
(* Properties *)

SweepEnded == tick.state = "Idle" /\ tick_result.kind # "none"

(* C1: when a sweep of _async_update_data has ended, whatever failed in it,
   async_update_data has been invoked on every agent of the fleet. *)
C1_EveryAgentVisited == SweepEnded => visited = Agents

PushHas(a, key) ==
    IF key \in {"pressure", "temperature"}
    THEN Has(rt_device_state[a], "sensor_data") /\ Has(rt_device_state[a]["sensor_data"], key)
    ELSE Has(rt_device_state[a], key)

IsValue(read, v) == read.kind = "value" /\ read.v = v

(* C2: for flow, pressure, temperature and the valve status, whenever the
   latest push and the latest poll both carry the key, the resolved value is
   the one of the push, also when the poll was applied after the push. *)
C2_PushPreferred ==
    \A a \in Agents : IsPlus(a) =>
        /\ (PushHas(a, "flow") /\ Has(last_poll[a], "flow"))
               => IsValue(current_flow_rate(a), Round(rt_device_state[a]["flow"]["v"], 3))
        /\ (PushHas(a, "pressure") /\ Has(last_poll[a], "pressure"))
               => IsValue(current_psi(a),
                          Round(rt_device_state[a]["sensor_data"]["pressure"]["v"], 2))
        /\ (PushHas(a, "temperature") /\ Has(last_poll[a], "temperature"))
               => IsValue(temperature(a),
                          Round(rt_device_state[a]["sensor_data"]["temperature"]["v"], 2))
        /\ (PushHas(a, "sov_state") /\ Has(last_poll[a], "sov_status"))
               => IsValue(sov_status(a), rt_device_state[a]["sov_state"])

(* the raw status the step leaves in place is Partial or LeakExp *)
Unstable(ds) ==
    IF RawStatus(ds).kind = "value" THEN RawStatus(ds).v \in {"Partial", "LeakExp"} ELSE FALSE

(* C3: in every step in which the raw valve status is Partial or LeakExp,
   whatever is read or applied, _last_known_valve_state keeps its value. *)
C3_ChangesOnlyWhenStable ==
    [][\A a \in Agents :
          Unstable(device_state'[a]) => last_known_valve_state'[a] = last_known_valve_state[a]]_vars

(* C4: a Partial observed after a Closed has been observed is reported as
   Opening, a Partial observed after an Open as Closing, however many Partial
   came in between; an observed Open is reported as Open and leaves
   _last_known_valve_state true, an observed Closed as Closed and leaves it false. *)
C4_TransitionDirection ==
    \A a \in Agents :
        /\ (valve_report[a].raw = "Partial" /\ valve_report[a].prev = "Closed")
               => (valve_report[a].state = "Opening" /\ last_known_valve_state[a] = FALSE)
        /\ (valve_report[a].raw = "Partial" /\ valve_report[a].prev = "Open")
               => (valve_report[a].state = "Closing" /\ last_known_valve_state[a] = TRUE)
        /\ valve_report[a].raw = "Open"
               => (valve_report[a].state = "Open" /\ last_known_valve_state[a] = TRUE)
        /\ valve_report[a].raw = "Closed"
               => (valve_report[a].state = "Closed" /\ last_known_valve_state[a] = FALSE)

(* a Partial is written as Opening after a Closed was written *)
C4_Witness ==
    \E a \in Agents :
        /\ valve_report[a].state = "Opening"
        /\ valve_report[a].raw = "Partial"
        /\ valve_report[a].prev = "Closed"

(* C5: in every reachable state, reading any resolved attribute of a Phyn Plus
   returns a value or None and never raises. *)
C5_ReadsNeverRaise ==
    \A a \in Agents : IsPlus(a) =>
        \A attr \in Attributes : Read(a, attr).kind # "raise"

(* C6: a refresh that ends without success, by a timeout as by a transport
   error, ends with UpdateFailed, and so does the sweep; no other error leaves. *)
C6_TimeoutIsUpdateFailed ==
    /\ tick_result.kind \in {"none", "ok", "UpdateFailed"}
    /\ \A a \in Agents : refresh_result[a].kind \in {"none", "pending", "ok", "UpdateFailed"}


RefreshEnds(a) == refresh_result[a].kind = "pending" /\ refresh_result'[a].kind # "pending"

RefreshFails(a) == refresh_result[a].kind = "pending" /\ refresh_result'[a].kind = "UpdateFailed"

(* C7: when a sub-call of a refresh fails with a transport error, the refresh
   ends with UpdateFailed carrying that error, the failed call is the last one
   the refresh issued, and the step changes no store: what the earlier
   sub-calls applied stays, what the later ones would write is untouched. *)
C7_FailureAbortsRefresh ==
    /\ [][\A a \in Agents : RefreshFails(a) =>
              /\ tick.i = a
              /\ refresh_result'[a].cause = RequestError(tick.call)
              /\ calls[a][Len(calls[a])] = tick.call
              /\ calls' = calls
              /\ Stores' = Stores
              /\ tick'.state = "Idle"]_vars
    /\ [](\A a \in Agents : refresh_result[a].kind = "UpdateFailed" =>
              calls[a][Len(calls[a])] = refresh_result[a].cause.call)

(* a Phyn Plus refresh failed in get_consumption: state and preferences of the
   same refresh are in place, the usage store is still empty *)
C7_Witness ==
    \E a \in Agents :
        /\ IsPlus(a)
        /\ refresh_result[a] = UpdateFailed(RequestError("get_consumption"))
        /\ Has(device_state[a], "sov_status")
        /\ Has(device_preferences[a], "scheduler_enable")
        /\ DOMAIN water_usage[a] = {}

(* C8 as stated: every refresh that ends, successfully or not, increases
   _update_count of its agent by exactly one. *)
C8_CountsEveryRefresh ==
    [][\A a \in Agents : RefreshEnds(a) => update_count'[a] = update_count[a] + 1]_vars

(* C8 amended: a refresh that ends successfully increases _update_count of its
   agent by exactly one; a refresh that ends with an error leaves it unchanged;
   nothing else changes it. *)
C8_CountsSuccesses ==
    [][\A a \in Agents :
          /\ RefreshEnds(a) =>
                 update_count'[a] = update_count[a]
                                      + (IF refresh_result'[a].kind = "ok" THEN 1 ELSE 0)
          /\ update_count'[a] # update_count[a] => RefreshEnds(a)]_vars

(* a refresh failed after an earlier one had succeeded: the count is still 1 *)
C8_Witness ==
    \E a \in Agents :
        refresh_result[a].kind \in {"UpdateFailed", "TimeoutError"} /\ update_count[a] = 1

FirmwareCalled(a) ==
    \E i \in 1..Len(calls[a]) : calls[a][i] = "get_latest_firmware_info"

(* C9 as stated: a refresh calls get_latest_firmware_info if and only if
   _update_count % 60 = 0 when it runs. *)
C9_FetchIffMultiple ==
    [][\A a \in Agents : RefreshEnds(a) =>
          (FirmwareCalled(a) <=> update_count[a] % FirmwarePeriod = 0)]_vars

(* the refresh ends with an error raised by a call that precedes the firmware fetch *)
EndsBeforeFirmware(a) ==
    refresh_result'[a].kind # "ok" /\ tick.call # "get_latest_firmware_info"

(* C9 amended: a refresh calls get_latest_firmware_info if and only if
   _update_count % 60 = 0 and every earlier sub-call of that refresh returned
   without error; the firmware cache changes only in such a fetch. *)
C9_FetchIffMultipleAndReached ==
    [][\A a \in Agents :
          /\ RefreshEnds(a) =>
                 (FirmwareCalled(a) <=>
                      (update_count[a] % FirmwarePeriod = 0 /\ ~EndsBeforeFirmware(a)))
          /\ firmware_info'[a] # firmware_info[a] =>
                 (tick.i = a /\ tick.call = "get_latest_firmware_info"
                      /\ update_count[a] % FirmwarePeriod = 0)]_vars

(* the sixty-first successful refresh of an agent awaits the firmware fetch *)
C9_Witness ==
    \E a \in Agents :
        /\ update_count[a] = FirmwarePeriod
        /\ tick.i = a
        /\ tick.call = "get_latest_firmware_info"

(* C10: set_device_preference leaves the cache alone when it sends the remote
   write and when the remote write fails (the call then raises); the cached
   value of a preference changes only when the write of that preference is
   acknowledged, to the written value, or when a preference poll is applied. *)
C10_CommitAfterAck ==
    [][\A a \in Agents :
          /\ (pref_write[a] = NoWrite /\ pref_write'[a] # NoWrite)
                 => device_preferences'[a] = device_preferences[a]
          /\ (pref_write[a] # NoWrite /\ pref_result'[a] = "RequestError")
                 => (device_preferences'[a] = device_preferences[a] /\ pref_write'[a] = NoWrite)
          /\ \A name \in PreferenceNames :
                 Preference(a, name)' # Preference(a, name) =>
                     \/ /\ pref_write[a].name = name
                        /\ pref_result'[a] = "ok"
                        /\ Preference(a, name)' = Val(pref_write[a].value = "true")
                     \/ tick.i = a /\ tick.call = "get_device_preferences"]_vars

(* a remote write failed while the cache held a polled value *)
C10_Witness ==
    \E a \in Agents :
        /\ pref_result[a] = "RequestError"
        /\ Has(device_preferences[a], "leak_sensitivity_away_mode")

-----------------------------------------------------------------------------
(* Properties of the preference setters, the valve commands and the pushes *)

InvalidCall(c) ==
    /\ c.via = "set_device_preference"
    /\ (c.name \notin PreferenceNames \/ c.value \notin PreferenceValues)

(* C11: a call of set_device_preference with a name outside the two preference
   names, or with a value that is neither "true" nor "false", sends nothing to
   the PollClient and leaves the preference cache unchanged; a command reaches
   the PollClient only from a call with a valid name and a valid value. *)
C11_InvalidIsNoOp ==
    [][/\ \A a \in Agents :
             (pref_call'[a] # pref_call[a] /\ InvalidCall(pref_call'[a])) =>
                 /\ commands' = commands
                 /\ pref_write' = pref_write
                 /\ device_preferences' = device_preferences
       /\ commands' # commands =>
             \E a \in Agents :
                 /\ pref_call'[a].name \in PreferenceNames
                 /\ pref_call'[a].value \in PreferenceValues
                 /\ commands' = Append(commands,
                        SetPreferencesCommand(a, pref_call'[a].name, pref_call'[a].value))]_vars

(* a call with a valid name and the value "on" was ignored: nothing was ever
   sent and the polled value is still cached *)
C11_Witness ==
    \E a \in Agents :
        /\ pref_result[a] = "ignored"
        /\ pref_call[a].name = "scheduler_enable"
        /\ pref_call[a].value = "on"
        /\ commands = <<>>
        /\ scheduled_leak_test_enabled(a) = Val(TRUE)

(* a setter of agent a is called in this step *)
Started(a) == pref_write[a] = NoWrite /\ pref_result'[a] # pref_result[a]

(* the setter of agent a resumes from an acknowledged remote write *)
Resumed(a) ==
    pref_write[a] # NoWrite /\ pref_write'[a] = NoWrite /\ pref_result'[a] # "RequestError"

Wrappers == {"set_away_mode", "set_scheduler_enabled"}

(* C12: a call of set_away_mode(b) or set_scheduler_enabled(b) does what
   set_device_preference does for the same preference and value in the same
   state: it sends the one set_device_preferences command and leaves the cache
   alone until the acknowledgement, and on the acknowledgement it ends without
   error with the value written to the cache, also when the preference has
   no cache entry yet. *)
C12_WrappersEquivalent ==
    [][\A a \in Agents :
          /\ (Started(a) /\ pref_call'[a].via \in Wrappers) =>
                 /\ commands' = Append(commands,
                        SetPreferencesCommand(a, pref_call'[a].name, pref_call'[a].value))
                 /\ pref_write'[a] = [name |-> pref_call'[a].name, value |-> pref_call'[a].value]
                 /\ device_preferences' = device_preferences
          /\ (Resumed(a) /\ pref_call[a].via \in Wrappers) =>
                 /\ pref_result'[a] = "ok"
                 /\ device_preferences'[a] =
                        SetItemValue(device_preferences[a], pref_write[a].name, pref_write[a].value)]_vars

(* the preference poll of agent a is applied in this step and its refresh goes on *)
PreferencesApplied(a) ==
    tick.i = a /\ tick.call = "get_device_preferences" /\ tick'.call = "get_consumption"

(* C13: when get_device_preferences has answered and the answer is applied,
   for every entry of the answer the cache holds that entry, with the polled
   value, whatever a setter wrote there before. *)
C13_PollOverwrites ==
    [][\A a \in Agents : PreferencesApplied(a) =>
          \A i \in 1..Len(polled_preferences'[a]) :
              LET item == polled_preferences'[a][i]
              IN  /\ Has(device_preferences'[a], item.name)
                  /\ device_preferences'[a][item.name] = item]_vars

(* set_device_preference wrote "false" and was acknowledged, and a later poll
   answered "true": the cache holds the polled value *)
C13_Witness ==
    \E a \in Agents :
        /\ pref_call[a] = Call("set_device_preference", "leak_sensitivity_away_mode", "false")
        /\ pref_result[a] = "ok"
        /\ \E i \in 1..Len(polled_preferences[a]) :
               polled_preferences[a][i] = PreferenceItem("leak_sensitivity_away_mode", "true")
        /\ away_mode(a) = Val(TRUE)

(* async_open_valve or async_close_valve of the valve entity of agent a is
   called in this step *)
Commanded(a) == valve_command'[a] # valve_command[a]

(* C14: a call of async_open_valve or async_close_valve hands exactly one
   command, open_valve or close_valve for the id of the device, to the
   PollClient, and changes neither the raw valve status nor
   _last_known_valve_state nor the state the valve entity reported. *)
C14_CommandForwarded ==
    [][\A a \in Agents : Commanded(a) =>
          /\ commands' = Append(commands,
                 [call |-> valve_command'[a].command, id |-> devices[a].id])
          /\ device_state' = device_state
          /\ last_known_valve_state' = last_known_valve_state
          /\ valve_report' = valve_report]_vars

(* no write of the valve entity of agent a has seen Open or Closed so far *)
NoStableSeen(a) ==
    valve_report[a].stable = "none" /\ valve_report[a].raw \notin {"Open", "Closed"}

(* C15: as long as the valve entity has seen neither Open nor Closed,
   _last_known_valve_state is true, and a Partial it sees is reported as
   Closing, never as Opening. *)
C15_InitialPartialIsClosing ==
    \A a \in Agents : NoStableSeen(a) =>
        /\ last_known_valve_state[a] = TRUE
        /\ valve_report[a].raw = "Partial" => valve_report[a].state = "Closing"

StableState(status) == IF status = "Open" THEN "Open" ELSE "Closed"

StableDirection(status) == IF status = "Open" THEN "Closing" ELSE "Opening"

(* C16: while the raw status is LeakExp, leak_test_running is true; the valve
   entity that sees LeakExp reports the position of the last Open or Closed it
   saw before, and a Partial it sees after the LeakExp is reported with the
   direction that follows from that Open or Closed. *)
C16_LeakTestOrthogonal ==
    \A a \in Agents :
        /\ (sov_status(a).kind = "value" /\ sov_status(a).v = "LeakExp")
               => leak_test_running(a) = Val(TRUE)
        /\ (valve_report[a].raw = "LeakExp" /\ valve_report[a].stable # "none")
               => valve_report[a].state = StableState(valve_report[a].stable)
        /\ (valve_report[a].raw = "Partial" /\ valve_report[a].prev = "LeakExp"
                /\ valve_report[a].stable # "none")
               => valve_report[a].state = StableDirection(valve_report[a].stable)

(* the stores of agent a that a push can write *)
AgentState(a) ==
    <<device_state[a], rt_device_state[a], device_preferences[a], firmware_info[a],
      water_usage[a], last_known_valve_state[a], valve_report[a]>>

(* C17: a push message changes the stores of an agent, and writes entities of
   an agent, only if the device id of the message is the id of that agent; a
   message leaves every other agent as it was and raises nothing there, so a
   message with the id of no agent changes nothing and raises nothing. *)
C17_PushRouted ==
    /\ [][\A a \in Agents :
              /\ (\/ rt_device_state'[a] # rt_device_state[a]
                  \/ (device_state'[a] # device_state[a] /\ tick' = tick))
                     => devices[a].id = last_push'.id
              /\ (last_push' # last_push /\ devices[a].id # last_push'.id)
                     => AgentState(a)' = AgentState(a)]_vars
    /\ [](\A a \in Agents :
              (last_push.written[a] > 0 \/ last_push.result[a] \notin {"none", "ok"})
                  => devices[a].id = last_push.id)

(* the last message was for the second agent and all its entities were
   written, while the first agent, registered as well, never got a push *)
C17_Witness ==
    /\ Len(devices) = 2
    /\ handlers = {1, 2}
    /\ last_push.id = devices[2].id
    /\ last_push.written[2] = EntityCount
    /\ Has(rt_device_state[2], "sov_state")
    /\ rt_device_state[1] = EmptyDict
    /\ last_push.written[1] = 0

(* C18: on_device_update never raises: for every agent the last message it
   handled, whatever its payload and whatever the agent had polled so far,
   ended without error. *)
C18_PushNeverRaises ==
    \A a \in Agents : last_push.result[a] \in {"none", "ok"}

(* PhynFlowState.native_value *)
flow_state(a) ==
    IF Has(rt_device_state[a], "flow_state") THEN Val(rt_device_state[a]["flow_state"]["v"])
    ELSE None

(* C19: _rt_device_state of an agent is the payload of the last message
   addressed to it and nothing else, so consumption and the flow state, which
   are resolved from it alone, are None when that payload omits them. *)
C19_PushSnapshotIsLastPayload ==
    \A a \in Agents :
        /\ rt_device_state[a] = last_push.data[a]
        /\ ~Has(last_push.data[a], "consumption") => consumption(a) = None
        /\ Has(last_push.data[a], "consumption")
               => consumption(a) = Val(last_push.data[a]["consumption"]["v"])
        /\ ~Has(last_push.data[a], "flow_state") => flow_state(a) = None

(* an earlier message delivered Closed, which is still the valve status of
   _device_state, and the last message, handled without error, carried neither
   the valve status nor the consumption: the push snapshot has neither and
   consumption is None *)
C19_Witness ==
    \E a \in Agents :
        /\ last_push.id = devices[a].id
        /\ last_push.result[a] = "ok"
        /\ sov_status(a) = Val("Closed")
        /\ ~Has(rt_device_state[a], "sov_state")
        /\ ~Has(rt_device_state[a], "consumption")
        /\ consumption(a) = None

(* the last message was addressed to agent a and its handler ran *)
Addressed(a) == a \in handlers /\ last_push.id = devices[a].id

(* C20: when an agent has handled a message addressed to it, every entity of
   the agent was written, and written after the stores were updated: the valve
   entity reported the valve status the message carried. *)
C20_PushNotifiesAll ==
    \A a \in Agents : Addressed(a) =>
        /\ last_push.written[a] = EntityCount
        /\ Has(last_push.data[a], "sov_state")
               => valve_report[a].raw = last_push.data[a]["sov_state"]

-----------------------------------------------------------------------------
(* A Phyn Plus v2, a Phyn Plus v1 and a water sensor whose polls answer any
   part of the device record *)

MergeHome ==
    <<[device_id |-> 1, product_code |-> "PP2"], [device_id |-> 2, product_code |-> "PP1"],
      [device_id |-> 3, product_code |-> "PW1"]>>

InitMerge == InitFleet(MergeHome)

Restrict(d, keys) == [k \in keys \cap DOMAIN d |-> d[k]]

(* get_state answers the whole record or some of its fields *)
PartialStateResponses(a) ==
    UNION {{resp, Restrict(resp, {"product_code", "sov_status"}),
            Restrict(resp, {"fw_version"})} :
               resp \in StateResponses(a, {"Open"}, {12345})}

(* get_water_statistics answers entries that carry different readings *)
PartialStatisticsResponses ==
    {<<[ts |-> 1, battery_level |-> 90]>>, <<[ts |-> 2, humidity |-> 40]>>}

NextMerge ==
    \/ TickStart(MaxUpdateCount)
    \/ \E resp \in PartialStateResponses(tick.i) : GetStateReturns(resp)
    \/ \E data \in PreferenceResponses({"true"}) : GetDevicePreferencesReturns(data)
    \/ \E resp \in ConsumptionResponses : GetConsumptionReturns(resp)
    \/ \E resp \in FirmwareResponses : GetLatestFirmwareInfoReturns(resp)
    \/ \E data \in PartialStatisticsResponses : GetWaterStatisticsReturns(data)
    \/ AsyncSetup

SpecMerge == InitMerge /\ [][NextMerge]_vars

(* the profiles whose poll answers only the fields that changed *)
PartialMerge(a) == devices[a].product_code \in {"PP2", "PW1"}

(* every key of old is a key of new, with its old value unless resp carries it *)
Kept(old, new, resp) ==
    \A k \in DOMAIN old : k \in DOMAIN new /\ (k \notin DOMAIN resp => new[k] = old[k])

(* C21: for the partial-merge profiles, no step removes a key of the poll
   snapshot (_device_state, _water_statistics), and a key that the poll
   response applied by the step does not carry keeps its prior value. *)
C21_AbsentKeysKept ==
    [][\A a \in Agents :
          PartialMerge(a) =>
              /\ Kept(device_state[a], device_state'[a], last_poll'[a])
              /\ Kept(water_statistics[a], water_statistics'[a], last_poll'[a])]_vars

(* a Phyn Plus v2 still holds fw_version after a get_state answer without it, and
   a water sensor still holds battery_level after an entry without it *)
C21_Witness ==
    /\ \E a \in Agents :
          /\ PartialMerge(a) /\ IsPlus(a)
          /\ Has(device_state[a], "fw_version")
          /\ last_poll[a] # EmptyDict /\ ~Has(last_poll[a], "fw_version")
    /\ \E a \in Agents :
          /\ PartialMerge(a) /\ IsWaterSensor(a)
          /\ Has(water_statistics[a], "battery_level")
          /\ Has(last_poll[a], "humidity") /\ ~Has(last_poll[a], "battery_level")


(* the profiles whose poll answers the whole device record *)
FullReplace(a) == devices[a].product_code \in {"PP1", "PC1"}

(* the keys of _device_state that a poll has delivered *)
PolledKeys(a) == DOMAIN device_state[a] \ DOMAIN InitialDeviceState(devices[a].cls)

(* C22: for the full-replace profiles (PP1, PC1), once a get_state answer has
   been applied the poll snapshot holds no polled key but those of the last
   answer: the keys of an earlier answer are discarded. *)
C22_PollReplacesSnapshot ==
    \A a \in Agents :
        (FullReplace(a) /\ last_poll[a] # EmptyDict) =>
            PolledKeys(a) \subseteq DOMAIN last_poll[a]


-----------------------------------------------------------------------------
(* One Phyn Plus: poll answers, push payloads and preference writes of the
   same device, in any order the awaits allow *)

NextMutations ==
    \/ TickStart(MaxUpdateCount)
    \/ \E resp \in StateResponses(tick.i, {"Open"}, {12345}) : GetStateReturns(resp)
    \/ \E data \in PreferenceResponses({"true"}) : GetDevicePreferencesReturns(data)
    \/ \E resp \in ConsumptionResponses : GetConsumptionReturns(resp)
    \/ \E resp \in FirmwareResponses : GetLatestFirmwareInfoReturns(resp)
    \/ AsyncSetup
    \/ \E data \in PushPayloads({"Closed"}, {20049}, {}) : OnDeviceUpdate(1, data)
    \/ \E a \in Agents : \E name \in PreferenceNames : SetDevicePreference(a, name, "false")
    \/ \E a \in Agents : SetPreferencesAcked(a)

SpecMutations == InitValve /\ [][NextMutations]_vars

(* the stores of agent a that polls, pushes and preference writes mutate *)
PushStores(a) == <<device_state[a], rt_device_state[a]>>
PollStores(a) == <<device_state[a], device_preferences[a], water_usage[a], firmware_info[a]>>

(* the step applied the whole get_state answer to agent a, and nothing else *)
WholeStateResponse(a) ==
    /\ tick.i = a /\ tick.call = "get_state"
    /\ \A k \in DOMAIN last_poll'[a] :
          Has(device_state'[a], k) /\ device_state'[a][k] = last_poll'[a][k]
    /\ \A k \in DOMAIN device_state[a] \ DOMAIN last_poll'[a] :
          Has(device_state'[a], k) /\ device_state'[a][k] = device_state[a][k]
    /\ UNCHANGED <<rt_device_state, device_preferences, water_usage, firmware_info>>

(* the step applied every item of the get_device_preferences answer *)
WholePreferenceResponse(a) ==
    /\ tick.i = a /\ tick.call = "get_device_preferences"
    /\ \A n \in 1..Len(polled_preferences'[a]) :
          LET item == polled_preferences'[a][n]
          IN  Has(device_preferences'[a], item.name) /\ device_preferences'[a][item.name] = item
    /\ UNCHANGED <<device_state, rt_device_state, water_usage, firmware_info>>

(* the step applied a get_consumption or get_latest_firmware_info answer *)
OtherResponse(a) ==
    /\ tick.i = a /\ tick.call \in {"get_consumption", "get_latest_firmware_info"}
    /\ UNCHANGED <<device_state, rt_device_state, device_preferences>>

(* the step applied the whole push payload to both stores of agent a *)
WholePush(a) ==
    LET data == last_push'.data[a]
        new == device_state'[a]
    IN  /\ rt_device_state'[a] = data
        /\ Has(data, "flow") => Has(new, "flow") /\ new["flow"] = data["flow"]
        /\ Has(data, "sov_state") =>
               Has(new, "sov_status") /\ new["sov_status"] = [v |-> data["sov_state"]]
        /\ (Has(data, "sensor_data") /\ Has(data["sensor_data"], "pressure")) =>
               Has(new, "pressure") /\ new["pressure"] = data["sensor_data"]["pressure"]
        /\ (Has(data, "sensor_data") /\ Has(data["sensor_data"], "temperature")) =>
               Has(new, "temperature")
                   /\ new["temperature"] = data["sensor_data"]["temperature"]
        /\ UNCHANGED <<device_preferences, water_usage, firmware_info, last_poll,
                       polled_preferences, tick>>

(* the step applied an acknowledged preference write *)
WholeWrite(a) ==
    /\ pref_write[a] # NoWrite /\ pref_write'[a] = NoWrite
    /\ Has(device_preferences'[a], pref_write[a].name)
    /\ device_preferences'[a][pref_write[a].name]["value"] = pref_write[a].value
    /\ UNCHANGED <<device_state, rt_device_state, water_usage, firmware_info, tick>>

(* C23: every step that changes the state of a device applies exactly one
   mutation and applies it whole -- one poll answer, or one push payload to
   both the push snapshot and _device_state, or one acknowledged preference
   write -- so that no state exists, and no read sees one, in which part of an
   answer or of a payload is applied; the valve state written inside a push is
   computed from the state after the whole payload. *)
C23_MutationsAreWhole ==
    [][\A a \in Agents :
          /\ \/ UNCHANGED <<PushStores(a), PollStores(a)>>
             \/ WholeStateResponse(a)
             \/ WholePreferenceResponse(a)
             \/ OtherResponse(a)
             \/ WholePush(a)
             \/ WholeWrite(a)
          /\ (valve_report'[a] # valve_report[a]) =>
                 valve_report'[a].raw = RawStatus(device_state'[a]).v]_vars

(* a push with sensor data and a valve status was applied while a refresh
   awaited its preferences, and a preference write was acknowledged *)
C23_Witness ==
    /\ tick.state = "Ticking" /\ tick.call = "get_device_preferences"
    /\ Has(rt_device_state[1], "sensor_data") /\ Has(rt_device_state[1], "sov_state")
    /\ device_state[1]["sov_status"]["v"] = "Closed"
    /\ pref_result[1] = "ok"
    /\ device_preferences[1]["scheduler_enable"]["value"] = "false"


(* the step is a push of payload data for the device of agent a, applied while
   the suspended refresh stays where it is *)
AppliedMidRefresh(a, data) ==
    /\ OnDeviceUpdate(devices[a].id, data)
    /\ rt_device_state'[a] = data
    /\ tick' = tick

(* C24: whenever a refresh is suspended on a call, of whichever agent, a push
   for any subscribed device, the refreshing one included, can be applied at
   once: the push step is enabled and leaves the refresh suspended. *)
C24_PushNotBlocked ==
    \A a \in handlers :
        tick.state = "Ticking" => ENABLED AppliedMidRefresh(a, [sov_state |-> "Closed"])

(* the refresh of the second agent has applied get_state (Open) and awaits its
   preferences; the push that arrived meanwhile has set the valve status *)
C24_Witness ==
    /\ tick.state = "Ticking" /\ tick.i = 2 /\ tick.call = "get_device_preferences"
    /\ last_poll[2]["sov_status"]["v"] = "Open"
    /\ Has(rt_device_state[2], "sov_state")
    /\ device_state[2]["sov_status"]["v"] = "Closed"


-----------------------------------------------------------------------------
(* async_unload_entry: the config entry is unloaded while the fleet runs *)

CancelledError == [kind |-> "CancelledError", cause |-> NoCause]

(* async_unload_entry runs up to await client.mqtt.disconnect_and_wait() *)
UnloadEntry ==
    /\ phase = "running"
    /\ phase' = "unloading"
    /\ UNCHANGED <<Fleet, acked_since_request,
                   Stores, update_count, tick, visited, tick_result,
                   refresh_result, calls, handlers, pref_write, pref_result,
                   valve_report, Writes, last_push>>

(* the mqtt connection is closed: no handler is called any more;
   async_unload_entry awaits async_unload_platforms *)
Disconnected ==
    /\ phase = "unloading"
    /\ phase' = "disconnected"
    /\ handlers' = {}
    /\ UNCHANGED <<Fleet, acked_since_request,
                   Stores, update_count, tick, visited, tick_result,
                   refresh_result, calls, pref_write, pref_result, valve_report,
                   Writes, last_push>>

(* Home Assistant cancels the task of a refresh in flight, or leaves it
   running: async_unload_entry itself cancels nothing *)
RefreshAfterUnload ==
    \/ UNCHANGED <<tick, tick_result, refresh_result>>
    \/ /\ tick.state = "Ticking"
       /\ tick' = Idle
       /\ tick_result' = CancelledError
       /\ refresh_result' = [refresh_result EXCEPT ![tick.i] = CancelledError]

(* async_unload_platforms answers: on success the entry is popped from
   hass.data and the unload is over *)
PlatformsUnloaded(unload_ok) ==
    /\ phase = "disconnected"
    /\ IF unload_ok
       THEN /\ phase' = "unloaded"
            /\ RefreshAfterUnload
       ELSE /\ phase' = "unload_failed"
            /\ UNCHANGED <<tick, tick_result, refresh_result>>
    /\ UNCHANGED <<Fleet, acked_since_request, Stores, update_count, visited, calls, handlers,
                   pref_write, pref_result, valve_report, Writes, last_push>>

NextTeardown ==
    \/ TickStart(MaxUpdateCount)
    \/ \E resp \in StateResponses(tick.i, {"Open"}, {12345}) : GetStateReturns(resp)
    \/ \E data \in PreferenceResponses({"true"}) : GetDevicePreferencesReturns(data)
    \/ \E resp \in ConsumptionResponses : GetConsumptionReturns(resp)
    \/ \E resp \in FirmwareResponses : GetLatestFirmwareInfoReturns(resp)
    \/ CallFails
    \/ AsyncSetup
    \/ \E data \in PushPayloads({"Closed"}, {}, {}) : OnDeviceUpdate(1, data)
    \/ \E a \in Agents : SetDevicePreference(a, "scheduler_enable", "false")
    \/ \E a \in Agents : SetPreferencesAcked(a)
    \/ UnloadEntry
    \/ Disconnected
    \/ \E unload_ok \in BOOLEAN : PlatformsUnloaded(unload_ok)

SpecTeardown == InitValve /\ [][NextTeardown]_vars

(* C25: once async_unload_entry has unloaded the entry, no step changes the
   state of any device: no poll answer, push payload or preference write is
   applied any more. *)
C25_NoMutationAfterTeardown ==
    [][phase = "unloaded" =>
          (UNCHANGED <<device_state, rt_device_state, device_preferences,
                      firmware_info, water_usage, water_statistics, update_count>>)]_vars

(* after the unload no push is delivered: the handlers are gone *)
C25_NoPushAfterTeardown ==
    [][(phase \in {"disconnected", "unloaded", "unload_failed"}) =>
          (UNCHANGED <<rt_device_state, last_push>>)]_vars


-----------------------------------------------------------------------------
(* async_setup_entry enumerates the homes: coordinator.add_device per device *)

(* per-agent field f with the fields of the agents that the constructors built *)
Extended(f, n, init) == [a \in 1..n |-> IF a \in DOMAIN f THEN f[a] ELSE init]

(* one iteration of the loops over homes and home["devices"], before the first
   refresh: add_device, and the constructor of the agent it builds *)
AddDevice(home_id, device_id, product_code) ==
    /\ phase = "first_refresh" /\ tick.state = "Idle" /\ tick_result = NoResult
    /\ Len(enumerated) < MaxDevices
    /\ enumerated' = Append(enumerated, [device_id |-> device_id, product_code |-> product_code])
    /\ devices' = add_device(devices, home_id, device_id, product_code)
    /\ LET n == Len(devices')
       IN  /\ device_state' = Extended(device_state, n, InitialDeviceState(devices'[n].cls))
           /\ rt_device_state' = Extended(rt_device_state, n, EmptyDict)
           /\ device_preferences' = Extended(device_preferences, n, EmptyDict)
           /\ firmware_info' = Extended(firmware_info, n, EmptyDict)
           /\ water_usage' = Extended(water_usage, n, EmptyDict)
           /\ water_statistics' = Extended(water_statistics, n, EmptyDict)
           /\ update_count' = Extended(update_count, n, 0)
           /\ last_known_valve_state' = Extended(last_known_valve_state, n, TRUE)
           /\ refresh_result' = Extended(refresh_result, n, NoResult)
           /\ calls' = Extended(calls, n, <<>>)
           /\ last_poll' = Extended(last_poll, n, EmptyDict)
           /\ pref_write' = Extended(pref_write, n, NoWrite)
           /\ pref_result' = Extended(pref_result, n, "none")
           /\ valve_report' = Extended(valve_report, n, NoReport)
           /\ polled_preferences' = Extended(polled_preferences, n, <<>>)
           /\ pref_call' = Extended(pref_call, n, NoCall)
           /\ valve_command' = Extended(valve_command, n, NoCommand)
           /\ last_push' = NoPush(1..n)
           /\ acked_since_request' = Extended(acked_since_request, n, FALSE)
    /\ UNCHANGED <<tick, visited, tick_result, phase, handlers, commands>>

ProductCodes == {"PP1", "PP2", "PC1", "PW1", "XX9"}

InitEnumerate == InitFleet(<<>>)

NextEnumerate ==
    \/ \E device_id \in {1, 2} : \E product_code \in ProductCodes :
           AddDevice(1, device_id, product_code)
    \/ TickStart(MaxRefreshCount)
    \/ \E resp \in StateResponses(tick.i, {"Open"}, {12345}) : GetStateReturns(resp)
    \/ CallFails

SpecEnumerate == InitEnumerate /\ [][NextEnumerate]_vars

(* the last add_device call of the step, when the step is one *)
Added == enumerated'[Len(enumerated')]

(* C26: every add_device call appends exactly one agent, of the class selected
   by the product code (PP1, PP2: Phyn Plus; PC1: Phyn Classic; PW1: water
   sensor) and with the id and code of the call, and for any other code it
   leaves the fleet as it was. *)
C26_OneAgentByProductCode ==
    [][Len(enumerated') = Len(enumerated) + 1 =>
          LET agent(cls) == [cls |-> cls, home_id |-> 1, id |-> Added.device_id,
                             product_code |-> Added.product_code]
          IN  IF Added.product_code \in {"PP1", "PP2"}
              THEN devices' = Append(devices, agent("PhynPlusDevice"))
              ELSE IF Added.product_code = "PC1"
              THEN devices' = Append(devices, agent("PhynClassicDevice"))
              ELSE IF Added.product_code = "PW1"
              THEN devices' = Append(devices, agent("PhynWaterSensorDevice"))
              ELSE devices' = devices /\ device_state' = device_state]_vars

(* three calls, the second with an unknown code: two agents *)
C26_Witness ==
    /\ Len(enumerated) = 3 /\ Len(devices) = 2
    /\ enumerated[2].product_code = "XX9"
    /\ devices[1].cls = "PhynWaterSensorDevice" /\ devices[2].cls = "PhynClassicDevice"


(* an agent once in the fleet stays, at its place and as the object it was *)
C27_NeverRecreated ==
    [][/\ Len(devices') >= Len(devices)
       /\ \A a \in Agents : devices'[a] = devices[a]]_vars

(* C27: whatever add_device calls were made, no two agents of the fleet have
   the same device id, and no step removes or replaces an agent. *)
C27_OneAgentPerDevice ==
    /\ [](\A a, b \in Agents : devices[a].id = devices[b].id => a = b)
    /\ C27_NeverRecreated


(* the calls of a full refresh: core state, the secondary data of the profile,
   the firmware fetch *)
FullRefresh(a) ==
    IF IsPlus(a)
    THEN <<"get_state", "get_device_preferences", "get_consumption",
           "get_latest_firmware_info">>
    ELSE IF IsClassic(a)
    THEN <<"get_state", "get_consumption", "get_latest_firmware_info">>
    ELSE <<"get_state", "get_water_statistics", "get_latest_firmware_info">>

IsPrefix(s, t) == Len(s) <= Len(t) /\ \A n \in 1..Len(s) : s[n] = t[n]

(* C28: the PollClient calls issued by a refresh are, in this order, the core
   state (get_state), the secondary data of the profile and then at most the
   firmware fetch: the first call of every refresh is get_state, and a refresh
   that succeeded has issued the core state and every secondary call. *)
C28_CoreStateFirst ==
    \A a \in Agents :
        /\ IsPrefix(calls[a], FullRefresh(a))
        /\ (refresh_result[a] = Ok) => Len(calls[a]) >= Len(FullRefresh(a)) - 1

(* the same for the valves alone *)
C28_ValvesCoreStateFirst ==
    \A a \in Agents :
        ~IsWaterSensor(a) =>
            /\ IsPrefix(calls[a], FullRefresh(a))
            /\ (refresh_result[a] = Ok) => Len(calls[a]) >= Len(FullRefresh(a)) - 1


(* the step delivers Partial to agent a, whose last delivered status was stable,
   and the valve entity is written in the same step *)
PartialAfterStable(a) ==
    /\ IsPlus(a)
    /\ Has(device_state[a], "sov_status")
    /\ device_state[a]["sov_status"]["v"] \in {"Open", "Closed"}
    /\ device_state'[a]["sov_status"]["v"] = "Partial"
    /\ valve_report'[a] # valve_report[a]

(* C29: when the status delivered last, by a poll or a push, was Open or Closed
   and a push delivers Partial, the state the valve entity writes for that
   Partial is Closing after Open and Opening after Closed, whether or not the
   valve was read between the two deliveries. *)
C29_DirectionFromLastDelivered ==
    [][\A a \in Agents :
          PartialAfterStable(a) =>
              valve_report'[a].state =
                  IF device_state[a]["sov_status"]["v"] = "Open"
                  THEN "Closing" ELSE "Opening"]_vars


(* the step applies the get_device_preferences answer of agent a *)
PreferencesAnswered(a) ==
    /\ tick.state = "Ticking" /\ tick.i = a /\ tick.call = "get_device_preferences"
    /\ tick'.call = "get_consumption"

(* the step applies to agent a an answer whose request was issued before the
   acknowledgement of the last preference write *)
OvertakenAnswer(a) ==
    /\ PreferencesAnswered(a)
    /\ acked_since_request[a]
    /\ pref_result[a] = "ok"

(* C30: the answer of a get_device_preferences call that was already in
   flight when a preference write was acknowledged leaves the written value
   in the cache: the preference still reads as the acknowledged value. *)
C30_InFlightPollKeepsWrite ==
    [][\A a \in Agents :
          OvertakenAnswer(a) =>
              /\ Has(device_preferences'[a], pref_call[a].name)
              /\ device_preferences'[a][pref_call[a].name]["value"] = pref_call[a].value]_vars

(* an answer that carries no item of the written preference keeps the value *)
C30_AbsentItemKeepsWrite ==
    [][\A a \in Agents :
          (OvertakenAnswer(a)
              /\ \A n \in 1..Len(polled_preferences'[a]) :
                     polled_preferences'[a][n].name # pref_call[a].name) =>
              /\ Has(device_preferences'[a], pref_call[a].name)
              /\ device_preferences'[a][pref_call[a].name]["value"] = pref_call[a].value]_vars


-----------------------------------------------------------------------------
(* C31: coordinator.async_setup never fails, whatever agents of the supported
   profiles the fleet holds and however the first sweep ended, and once it has
   completed every Phyn Plus has its push handler registered. *)
C31_SetupCompletes ==
    /\ phase # "setup_failed"
    /\ (phase = "running") => \A a \in Agents : IsPlus(a) => a \in handlers


(* C32: async_unload_entry either tears the fleet down completely (no handler
   is called any more, the platforms are unloaded and the entry is removed) or,
   when unloading the platforms fails, leaves the fleet as it ran: every Phyn
   Plus still receives its pushes. *)
C32_UnloadAllOrNothing ==
    /\ (phase = "unloaded") => handlers = {}
    /\ (phase = "unload_failed") => \A a \in Agents : IsPlus(a) => a \in handlers


(* the last call of a refresh before the firmware fetch *)
LastSecondaryCall(a) ==
    IF IsWaterSensor(a) THEN "get_water_statistics" ELSE "get_consumption"

(* the step in which the last secondary call of agent a returns without error *)
SecondaryDone(a) ==
    /\ tick.state = "Ticking" /\ tick.i = a /\ tick.call = LastSecondaryCall(a)
    /\ tick' # tick
    /\ refresh_result'[a].kind \in {"pending", "ok"}

(* C33: a refresh that fails while _update_count % 60 = 0 leaves the count
   where it was, and every refresh that gets past its secondary calls with
   _update_count % 60 = 0 awaits the firmware fetch: the fetch that a failed
   refresh missed is attempted by the next refresh, not sixty refreshes later. *)
C33_FailedFetchRetried ==
    [][\A a \in Agents :
          /\ (RefreshEnds(a) /\ refresh_result'[a].kind # "ok"
                  /\ update_count[a] % FirmwarePeriod = 0)
                 => update_count'[a] = update_count[a]
          /\ (SecondaryDone(a) /\ update_count[a] % FirmwarePeriod = 0)
                 => tick' = Awaiting(a, "get_latest_firmware_info")]_vars

(* the sweep before failed in get_water_statistics of the water sensor at count
   60, and the refresh of this sweep awaits the firmware fetch at count 60 *)
C33_Witness ==
    /\ tick_result.kind = "UpdateFailed"
    /\ tick_result.cause.call = "get_water_statistics"
    /\ tick = Awaiting(1, "get_latest_firmware_info")
    /\ update_count[1] = FirmwarePeriod


(* C34: in every state in which the valve status is known, the valve entity
   reports at most one of opening and closing, reports neither unless the raw
   status is Partial, and reports is_closed as the negation of valve_open,
   which during Partial is the held _last_known_valve_state. *)
C34_ValveReportConsistent ==
    \A a \in Agents :
        (IsPlus(a) /\ Has(device_state[a], "sov_status")) =>
            /\ ~(is_opening(a) /\ is_closing(a))
            /\ (is_opening(a) \/ is_closing(a)) => RawStatus(device_state[a]).v = "Partial"
            /\ is_closed(a).kind = "value" /\ valve_open(a).kind = "value"
            /\ is_closed(a).v = ~valve_open(a).v
            /\ (RawStatus(device_state[a]).v = "Partial") =>
                   /\ valve_open(a).v = last_known_valve_state[a]
                   /\ is_opening(a) = ~last_known_valve_state[a]
                   /\ is_closing(a) = last_known_valve_state[a]

(* the valve was written as Opening: Partial after a read of Closed *)
C34_Witness ==
    \E a \in Agents :
        /\ valve_report[a].state = "Opening"
        /\ RawStatus(device_state[a]).v = "Partial"
        /\ is_opening(a) /\ ~is_closing(a) /\ is_closed(a).v


(* the step applies a push to agent a; its payload is last_push'.data[a] *)
PushApplied(a) ==
    /\ a \in handlers /\ IsPlus(a)
    /\ tick' = tick
    /\ last_push'.id = devices[a].id
    /\ \/ device_state'[a] # device_state[a]
       \/ rt_device_state'[a] # rt_device_state[a]
       \/ last_push' # last_push

(* key k of _device_state is as it was before the step *)
KeyKept(a, k) ==
    /\ Has(device_state'[a], k) <=> Has(device_state[a], k)
    /\ Has(device_state[a], k) => device_state'[a][k] = device_state[a][k]

(* C35: right after a push is applied, the flow rate, the pressure, the
   temperature and the valve status whose key the payload carries resolve to
   the pushed value (under the rounding of the attribute; sov_state is the
   valve status), the entries of _device_state whose key the payload lacks
   are as before, and the preference cache, the firmware cache, the daily
   consumption and _update_count are unchanged. *)
C35_PushSetsCarriedKeysOnly ==
    [][\A a \in Agents :
          PushApplied(a) =>
              LET data == last_push'.data[a]
                  sensor == IF Has(data, "sensor_data") THEN data["sensor_data"] ELSE EmptyDict
              IN  /\ IF Has(data, "flow")
                     THEN current_flow_rate(a)' = Val(Round(data["flow"]["v"], 3))
                     ELSE KeyKept(a, "flow")
                  /\ IF Has(sensor, "pressure")
                     THEN current_psi(a)' = Val(Round(sensor["pressure"]["v"], 2))
                     ELSE KeyKept(a, "pressure")
                  /\ IF Has(sensor, "temperature")
                     THEN temperature(a)' = Val(Round(sensor["temperature"]["v"], 2))
                     ELSE KeyKept(a, "temperature")
                  /\ IF Has(data, "sov_state")
                     THEN sov_status(a)' = Val(data["sov_state"])
                     ELSE KeyKept(a, "sov_status")
                  /\ \A k \in DOMAIN device_state[a] \ {"flow", "flow_state", "pressure",
                                                       "temperature", "sov_status"} :
                         KeyKept(a, k)
                  /\ device_preferences'[a] = device_preferences[a]
                  /\ firmware_info'[a] = firmware_info[a]
                  /\ water_usage'[a] = water_usage[a]
                  /\ update_count'[a] = update_count[a]]_vars

(* a push with a pressure and no temperature landed on a polled state: the
   pressure resolves to the pushed 2.0049 rounded, the temperature to the poll *)
C35_Witness ==
    /\ Has(rt_device_state[1], "sensor_data")
    /\ Has(rt_device_state[1]["sensor_data"], "pressure")
    /\ ~Has(rt_device_state[1]["sensor_data"], "temperature")
    /\ current_psi(1) = Val(Round(20049, 2))
    /\ temperature(1) = Val(Round(12345, 2))
    /\ Has(device_preferences[1], "scheduler_enable")


(* agent a has entered async_update_data at least once: in the sweep under way
   or the last one, or in one whose get_state was answered *)
PollAttempted(a) == a \in visited \/ update_count[a] > 0 \/ last_poll[a] # EmptyDict

(* no handler is registered until the first sweep has ended and
   coordinator.async_setup runs *)
C36_NoHandlerBeforeFirstSweepEnds ==
    (phase = "first_refresh" \/ phase = "setup") => handlers = {}

(* the platforms receive the entities only with every Phyn Plus subscribed *)
C36_SubscribedBeforePlatforms ==
    (phase = "running") => \A a \in Agents : IsPlus(a) => a \in handlers

(* C36: during setup no handler is registered before the first sweep has
   ended, every Phyn Plus is subscribed before the platforms receive the
   entities, and no push is applied to an agent that has not had its first
   poll attempt. *)
C36_FirstPollBeforePush ==
    /\ [](C36_NoHandlerBeforeFirstSweepEnds /\ C36_SubscribedBeforePlatforms)
    /\ [][\A a \in Agents : PushApplied(a) => PollAttempted(a)]_vars


(* the step resumes agent a from its await of get_water_statistics *)
StatisticsStep(a) ==
    /\ tick.state = "Ticking" /\ tick.i = a /\ tick.call = "get_water_statistics"
    /\ tick' # tick

(* the entry of data with the greatest ts, the first of them on ties *)
GreatestFirst(data) ==
    data[CHOOSE n \in 1..Len(data) :
            \A m \in 1..Len(data) :
                /\ data[m]["ts"] <= data[n]["ts"]
                /\ (m < n) => data[m]["ts"] < data[n]["ts"]]

(* an answer with entries is merged: the stored statistics take the entry with
   the greatest ts, the first one on ties, and the refresh goes on *)
C37_GreatestEntryMerged ==
    [][\A a \in Agents :
          (StatisticsStep(a) /\ refresh_result'[a].kind \in {"pending", "ok"}) =>
              \E data \in WaterStatisticsResponses \ {<<>>} :
                  /\ last_poll'[a] = GreatestFirst(data)
                  /\ water_statistics'[a] = DictUpdate(water_statistics[a], GreatestFirst(data))]_vars

(* C37: a water sensor refresh merges into the stored statistics the returned
   entry with the greatest timestamp, the first one on ties; when no entry is
   merged the stored statistics are unchanged and the refresh ends normally or
   with UpdateFailed (or is cut by the timeout of the sweep), never with
   another error. *)
C37_StatisticsMergedOrKept ==
    [][\A a \in Agents :
          StatisticsStep(a) =>
              \/ /\ refresh_result'[a].kind \in {"pending", "ok"}
                 /\ \E data \in WaterStatisticsResponses \ {<<>>} :
                        water_statistics'[a] = DictUpdate(water_statistics[a], GreatestFirst(data))
              \/ /\ refresh_result'[a].kind \in {"pending", "ok", "UpdateFailed", "TimeoutError"}
                 /\ water_statistics'[a] = water_statistics[a]]_vars


-----------------------------------------------------------------------------
(* Two Phyn Plus whose installed and latest firmware versions vary from one
   answer to the next *)

FirmwareHome ==
    <<[device_id |-> 1, product_code |-> "PP2"], [device_id |-> 2, product_code |-> "PP1"]>>

Versions == {<<9>>, <<1, 0>>, <<1, 1>>}

VersionedStateResponses(a) ==
    {[resp EXCEPT !["fw_version"] = v] :
        resp \in StateResponses(a, {"Open"}, {12345}), v \in Versions}

VersionedFirmwareResponses ==
    {<<[fw_version |-> v, release_notes |-> "url"]>> : v \in Versions}

InitFirmware == InitFleet(FirmwareHome)

NextFirmware ==
    \/ TickStart(MaxUpdateCount)
    \/ \E resp \in VersionedStateResponses(tick.i) : GetStateReturns(resp)
    \/ \E data \in PreferenceResponses({"true"}) : GetDevicePreferencesReturns(data)
    \/ \E resp \in ConsumptionResponses : GetConsumptionReturns(resp)
    \/ \E resp \in VersionedFirmwareResponses : GetLatestFirmwareInfoReturns(resp)
    \/ CallFails
    \/ AsyncSetup

SpecFirmware == InitFirmware /\ [][NextFirmware]_vars

(* C38: firmware_has_update is unknown while no firmware info has been
   fetched; once it has been, it is true exactly when the latest version is
   numerically greater than the installed version of the latest get_state
   answer; and the firmware info, once fetched, is kept by every step of a
   refresh other than the answer of a firmware fetch. *)
C38_FirmwareHasUpdate ==
    /\ [](\A a \in Agents :
            IF firmware_info[a] = EmptyDict
            THEN firmware_has_update(a) = None
            ELSE /\ Has(last_poll[a], "fw_version")
                 /\ firmware_has_update(a) =
                        Val(ParseInt(firmware_info[a]["fw_version"])
                                > ParseInt(last_poll[a]["fw_version"])))
    /\ [][\A a \in Agents :
            ~(tick.i = a /\ tick.call = "get_latest_firmware_info") =>
                firmware_info'[a] = firmware_info[a]]_vars

(* the first refresh fetched version 10 against an installed 9; the second
   one skipped the fetch and polled an installed 11: no update any more *)
C38_Witness ==
    /\ update_count[1] = 2
    /\ ~FirmwareCalled(1)
    /\ firmware_info[1]["fw_version"] = <<1, 0>>
    /\ last_poll[1]["fw_version"] = <<1, 1>>
    /\ firmware_has_update(1) = Val(FALSE)
    /\ firmware_has_update(2) = Val(TRUE)

====
